---- MODULE Spec2Model ----
(***************************************************************************)
(* Amazon Live programming strategy pipeline.                              *)
(*                                                                         *)
(* src/src/generate_pivot_tables.py        loader, session synthesizer,    *)
(*                                         aggregation engine              *)
(* src/src/generate_programming_strategy.py ranking and recommendation     *)
(*                                         builder, report renderer        *)
(*                                                                         *)
(* Every stage is a batch function.  Each stage is modelled by its own     *)
(* state machine (its input drawn in the initial state, one action per     *)
(* function or per try-block of the function) and has its own              *)
(* specification; the variables of the other stages stay idle.             *)
(***************************************************************************)
EXTENDS Integers, Sequences, FiniteSets, TLC

VARIABLES
    \* ---- Dataset Loader (load_real_data / load_sample_data)
    fileState,      \* input file -> "ok" | "missing" | "nonnumeric"
    xformOk,        \* the transformation block (lines 207-386) does not raise
    loadPc,         \* position inside load_real_data
    readCount,      \* input file -> number of pd.read_csv attempts so far
    sampleCalls,    \* number of generate_sample_data invocations so far
    loadResult,     \* the returned tuple of tables, <<>> until a return
    \* ---- Session Synthesizer (order timestamp -> day / hour / time slot)
    slotPc,         \* "raw" | "mapped"
    order,          \* [weekday, hour] of order_purchase_timestamp
    orderRow,       \* the derived columns of the order
    \* ---- Aggregation Engine (create_*_pivot_tables)
    sessions,       \* the sessions frame: [cols, rows]
    aggPc,          \* which create_*_pivot_tables call main makes next
    aggTables,      \* output file -> [written, cols, rows]
    \* ---- Ranking & Recommendation Builder (generate_*_recommendations)
    builder,        \* the generate_*_recommendations function that is run
    pivot_tables,   \* its argument: analysis type -> sheet name -> frame
    rankPc,         \* "first" | "second" | "done": the builder is run twice
    recs,           \* the outcomes of the runs so far
    \* ---- Aggregation Engine: the engagement_rate column (lines 429-437)
    rateFrame,      \* the sessions frame: [cols, rows, given]
    ratePc,         \* "raw" | "filled"
    rateColumn,     \* the engagement_rate column after the block
    \* ---- Dataset Loader: the tables it returns
    source,         \* the Olist rows: [products, items, drawn]
    buildPc,        \* "real" | "sample" | "built"
    tables,         \* category columns of products / creators / sessions
    \* ---- Report Renderer and main of generate_programming_strategy.py
    runInput,       \* [pt, unwritable]: the loaded pivot tables, the outputs
                    \* whose write fails
    mainPc,         \* the call main makes next, "done" | "raised"
    recommendations,\* all_recommendations: builder key -> its result
    markdown,       \* the lines of the strategy document
    attempted,      \* the output files whose write was attempted, in order
    \* ---- Aggregation Engine: create_viewer_engagement_pivot_tables
    engagement_data,        \* its argument: [cols, rows]
    engagementSessionCols,  \* the columns of its sessions argument
    engPc,                  \* "start" | "skipped" | "failed" | "saved"
    merged_data,            \* the joined records with their engagement_level
    engWritten              \* the tables written

loaderVars == <<fileState, xformOk, loadPc, readCount, sampleCalls, loadResult>>
slotVars   == <<slotPc, order, orderRow>>
aggVars    == <<sessions, aggPc, aggTables>>
rankVars   == <<builder, pivot_tables, rankPc, recs>>
rateVars   == <<rateFrame, ratePc, rateColumn>>
buildVars  == <<source, buildPc, tables>>
mainVars   == <<runInput, mainPc, recommendations, markdown, attempted>>
engagementVars == <<engagement_data, engagementSessionCols, engPc, merged_data, engWritten>>

(***************************************************************************)
(* Dataset Loader                                                          *)
(***************************************************************************)
OlistFiles ==
    << "olist_customers_dataset.csv", "olist_orders_dataset.csv",
       "olist_order_items_dataset.csv", "olist_products_dataset.csv",
       "olist_sellers_dataset.csv", "product_category_name_translation.csv" >>

SummerFile == "summer-products-with-rating-and-performance_2020-08.csv"

YouTubeFile == "YouTube.csv"

InputFiles == {OlistFiles[i] : i \in 1..Len(OlistFiles)} \cup {SummerFile, YouTubeFile}

\* "nonnumeric": YouTube.csv is readable and has the likeCount / replyCount
\* columns, but they hold text that int() rejects.
FileStates(f) == IF f = YouTubeFile THEN {"ok", "missing", "nonnumeric"}
                                    ELSE {"ok", "missing"}

\* The tuple both return statements build.
TableNames == << "creators", "products", "orders", "order_items", "sessions",
                 "engagement_data" >>

ResultTuple(origin) == [i \in 1..Len(TableNames) |-> [table |-> TableNames[i], origin |-> origin]]

\* pd.read_csv raises for a file that is missing or unreadable.
ReadRaises(fs, f) == fs[f] = "missing"

\* Index of the first Olist file whose read raises, 0 when all six load.
FirstBadOlist(fs) ==
    IF \E i \in 1..Len(OlistFiles) : ReadRaises(fs, OlistFiles[i])
    THEN CHOOSE i \in 1..Len(OlistFiles) :
            /\ ReadRaises(fs, OlistFiles[i])
            /\ \A j \in 1..(i - 1) : ~ReadRaises(fs, OlistFiles[j])
    ELSE 0

\* generate_sample_data reads YouTube.csv with no try around it, and converts
\* likeCount / replyCount with .astype(int).
SampleDataRaises(fs) == fs[YouTubeFile] # "ok"

BumpReads(rc, files) == [f \in InputFiles |-> IF f \in files THEN rc[f] + 1 ELSE rc[f]]

\* lines 170-180: the six Olist reads in one try; the handler returns
\* load_sample_data(), still inside the outer try.
LoadOlist ==
    /\ loadPc = "olist"
    /\ LET k    == FirstBadOlist(fileState)
           last == IF k = 0 THEN Len(OlistFiles) ELSE k
       IN /\ readCount' = BumpReads(readCount, {OlistFiles[i] : i \in 1..last})
          /\ loadPc' = IF k = 0 THEN "summer" ELSE "sample_in_handler"
    /\ UNCHANGED <<fileState, xformOk, sampleCalls, loadResult>>

\* lines 184-189
LoadSummer ==
    /\ loadPc = "summer"
    /\ readCount' = BumpReads(readCount, {SummerFile})
    /\ loadPc' = IF ReadRaises(fileState, SummerFile) THEN "sample_in_handler"
                                                      ELSE "youtube"
    /\ UNCHANGED <<fileState, xformOk, sampleCalls, loadResult>>

\* lines 193-205: a failed read is replaced by a dummy frame.
LoadYouTube ==
    /\ loadPc = "youtube"
    /\ readCount' = BumpReads(readCount, {YouTubeFile})
    /\ loadPc' = "transform"
    /\ UNCHANGED <<fileState, xformOk, sampleCalls, loadResult>>

\* lines 207-386: joins, derived columns, to_csv; any exception goes to the
\* outer handler (line 387).
Transform ==
    /\ loadPc = "transform"
    /\ IF xformOk
       THEN /\ loadResult' = ResultTuple("real")
            /\ loadPc' = "returned"
       ELSE /\ loadResult' = loadResult
            /\ loadPc' = "sample_outer"
    /\ UNCHANGED <<fileState, xformOk, readCount, sampleCalls>>

\* load_sample_data (lines 392-409) calling generate_sample_data (33-155).
\* Called from the handlers at 180 / 189 an exception is still inside the
\* outer try and reaches the handler at 387; called from that handler (390) it
\* leaves load_real_data.
LoadSample(onRaise) ==
    /\ sampleCalls' = sampleCalls + 1
    /\ readCount' = BumpReads(readCount, {YouTubeFile})
    /\ IF SampleDataRaises(fileState)
       THEN /\ loadResult' = loadResult
            /\ loadPc' = onRaise
       ELSE /\ loadResult' = ResultTuple("sample")
            /\ loadPc' = "returned"
    /\ UNCHANGED <<fileState, xformOk>>

SampleInHandler ==
    /\ loadPc = "sample_in_handler"
    /\ LoadSample("sample_outer")

SampleOuter ==
    /\ loadPc = "sample_outer"
    /\ LoadSample("raised")

InitLoaderVars ==
    /\ fileState \in {fs \in [InputFiles -> {"ok", "missing", "nonnumeric"}] :
                        \A f \in InputFiles : fs[f] \in FileStates(f)}
    /\ xformOk \in BOOLEAN
    /\ loadPc = "olist"
    /\ readCount = [f \in InputFiles |-> 0]
    /\ sampleCalls = 0
    /\ loadResult = << >>

IdleLoaderVars ==
    /\ fileState = [f \in InputFiles |-> "ok"]
    /\ xformOk = TRUE
    /\ loadPc = "idle"
    /\ readCount = [f \in InputFiles |-> 0]
    /\ sampleCalls = 0
    /\ loadResult = << >>

(***************************************************************************)
(* Session Synthesizer: derived order columns                              *)
(***************************************************************************)
TimeSlots == {"Morning", "Afternoon", "Evening", "Night"}

\* dt.day_name() of weekday 0..6
DayNames == << "Monday", "Tuesday", "Wednesday", "Thursday", "Friday",
               "Saturday", "Sunday" >>

HoursOfDay == 0..23

\* map_to_time_slot with the final else dropped: the hours outside the three
\* ranges get no slot name.
map_to_time_slot_gap(hour) ==
    IF 6 <= hour /\ hour < 12 THEN "Morning"
    ELSE IF 12 <= hour /\ hour < 18 THEN "Afternoon"
    ELSE IF 18 <= hour /\ hour < 22 THEN "Evening"
    ELSE "None"

\* lines 226-234
map_to_time_slot(hour) ==
    IF 6 <= hour /\ hour < 12 THEN "Morning"
    ELSE IF 12 <= hour /\ hour < 18 THEN "Afternoon"
    ELSE IF 18 <= hour /\ hour < 22 THEN "Evening"
    ELSE "Night"

\* lines 221-236: day_of_week, hour_of_day and time_slot of one order.
DeriveOrderColumns ==
    /\ slotPc = "raw"
    /\ orderRow' = [day_of_week |-> DayNames[order.weekday + 1],
                    hour_of_day |-> order.hour,
                    time_slot   |-> map_to_time_slot(order.hour)]
    /\ slotPc' = "mapped"
    /\ UNCHANGED order

NoRow == [day_of_week |-> "", hour_of_day |-> -1, time_slot |-> ""]

InitSlotVars ==
    /\ slotPc = "raw"
    /\ order \in [weekday : 0..6, hour : HoursOfDay]
    /\ orderRow = NoRow

IdleSlotVars ==
    /\ slotPc = "idle"
    /\ order = [weekday |-> 0, hour |-> 0]
    /\ orderRow = NoRow

(***************************************************************************)
(* Aggregation Engine                                                      *)
(*                                                                         *)
(* A frame is [cols, rows]: the set of its column names and its rows.  A   *)
(* float is a pair <<n, d>> standing for n / d with IEEE semantics:        *)
(* <<n, 0>> with n > 0 is +inf and <<0, 0>> is NaN.                        *)
(***************************************************************************)
MaxSessions == 2

\* The first creators of the sample table (lines 41-55).
Creators ==
    << [creator_id |-> 1, creator_name |-> "BeautyGuru", creator_tier |-> "Top",
        creator_category |-> "Beauty"],
       [creator_id |-> 2, creator_name |-> "TechExpert", creator_tier |-> "Mid",
        creator_category |-> "Electronics"] >>

KnownCreatorIds == {Creators[i].creator_id : i \in 1..Len(Creators)}

\* creator ids a session may carry: the known ones and one that is in no row
\* of the creators table.
SessionCreatorIds == KnownCreatorIds \cup {99}

\* creators.loc[creators['creator_id'] == x, ...].iloc[0]
CreatorRow(id) ==
    Creators[CHOOSE i \in 1..Len(Creators) :
                /\ Creators[i].creator_id = id
                /\ \A j \in 1..(i - 1) : Creators[j].creator_id # id]

\* lines 439-441
creator_tier_of(id) ==
    IF id \in KnownCreatorIds THEN CreatorRow(id).creator_tier ELSE "Unknown"

\* lines 444-446
creator_name_of(id) ==
    IF id \in KnownCreatorIds THEN CreatorRow(id).creator_name
                              ELSE "Creator-" \o ToString(id)

\* lines 359-362
get_creator_category(id) ==
    IF id \in KnownCreatorIds THEN CreatorRow(id).creator_category ELSE "Other"

\* The columns of the real-data sessions frame (lines 346-364), session_id
\* included; revenue and duration_minutes are optional.
BaseCols == {"session_id", "creator_id", "session_date", "day_of_week", "time_slot",
             "engagement_rate", "conversion_rate", "product_category"}

OptionalCols == {"revenue", "duration_minutes"}

\* The dimension columns the create_*_pivot_tables functions use.
ExpectedDims == {"creator_id", "time_slot", "day_of_week", "product_category"}

\* A frame with none of the columns the aggregation dictionaries look for
\* (lines 448-465, 538-553, 649-664).
NoMetricCols == BaseCols \ {"engagement_rate", "conversion_rate"}

\* The frames of the loader, frames that lack one dimension column, and
\* frames without any metric column.
ColumnSets ==
    {BaseCols \cup opt : opt \in SUBSET OptionalCols}
        \cup {BaseCols \ {c} : c \in ExpectedDims}
        \cup {NoMetricCols} \cup {NoMetricCols \ {c} : c \in ExpectedDims}

RevenueValues == {0, 3}

DurationValues == {0, 1}

\* The rows a frame with columns cols may hold; a column the frame lacks is
\* kept at 0 and never read.
SessionRows(cols) ==
    {r \in [creator_id : SessionCreatorIds, session_date : {1},
            day_of_week : {"Monday"}, time_slot : {"Morning", "Evening"},
            product_category : {"Beauty", "Electronics", "Other"},
            revenue : RevenueValues, duration_minutes : DurationValues] :
        /\ r.product_category = get_creator_category(r.creator_id)
        /\ "revenue" \notin cols => r.revenue = 0
        /\ "duration_minutes" \notin cols => r.duration_minutes = 0}

\* Lexicographic order of the labels, as groupby(sort=True) and sort_values
\* order them.
Alphabetical ==
    << "Afternoon", "Beauty", "BeautyGuru", "Creator-99", "Electronics",
       "Emerging", "Evening", "Friday", "Mid", "Monday", "Morning", "Night",
       "Other", "Saturday", "Sunday", "TechExpert", "Thursday", "Top",
       "Tuesday", "Unknown", "Wednesday" >>

Rank(label) == CHOOSE i \in 1..Len(Alphabetical) : Alphabetical[i] = label

LexLess(a, b) ==
    \E i \in 1..Len(a) : /\ \A j \in 1..(i - 1) : a[j] = b[j]
                         /\ Rank(a[i]) < Rank(b[i])

RECURSIVE SortKeys(_)
SortKeys(keys) ==
    IF keys = {} THEN << >>
    ELSE LET m == CHOOSE x \in keys : \A y \in keys \ {x} : LexLess(x, y)
         IN  <<m>> \o SortKeys(keys \ {m})

SumCols == {"revenue", "duration_minutes", "views", "unique_viewers", "likes", "comments"}

\* The aggregation dictionary with its rate entries made whether or not the
\* frame has the columns.
AggDictWithRates(cols, meanCols) == (cols \cap SumCols) \cup meanCols

\* lines 448-465 (creator: meanCols = engagement_rate, conversion_rate),
\* 538-553 and 649-664 (category, time slot: meanCols = conversion_rate)
AggDict(cols, meanCols) == (cols \cap SumCols) \cup (cols \cap meanCols)

\* The value of a grouping dimension in a session row.
Dim(r, d) ==
    CASE d = "creator_tier" -> creator_tier_of(r.creator_id)
      [] d = "creator_name" -> creator_name_of(r.creator_id)
      [] d = "time_slot"    -> r.time_slot
      [] d = "day_of_week"  -> r.day_of_week
      [] OTHER              -> r.product_category

KeyOf(r, dims) == [i \in 1..Len(dims) |-> Dim(r, dims[i])]

RECURSIVE SumOver(_, _, _)
SumOver(rows, idx, col) ==
    IF idx = {} THEN 0
    ELSE LET i == CHOOSE j \in idx : TRUE
             v == IF col = "revenue" THEN rows[i].revenue ELSE rows[i].duration_minutes
         IN  v + SumOver(rows, idx \ {i}, col)

NoRpm == <<0, 1>>

\* frame.groupby(dims).agg(agg): one row per distinct key, keys ascending,
\* revenue and duration_minutes summed when agg names them.
GroupBy(rows, dims, agg) ==
    LET keys == {KeyOf(rows[i], dims) : i \in DOMAIN rows}
        ks   == SortKeys(keys)
        members(k) == {i \in DOMAIN rows : KeyOf(rows[i], dims) = k}
    IN  [j \in 1..Len(ks) |->
            [key |-> ks[j],
             revenue |-> IF "revenue" \in agg
                         THEN SumOver(rows, members(ks[j]), "revenue") ELSE 0,
             duration_minutes |-> IF "duration_minutes" \in agg
                                  THEN SumOver(rows, members(ks[j]), "duration_minutes")
                                  ELSE 0,
             rpm |-> NoRpm]]

\* np.random.uniform(5, 50): the draws the model takes from [5, 50).
RpmFallbackLow == 5

RpmFallbackHigh == 50

PlaceholderDraws == {RpmFallbackLow, RpmFallbackHigh - 1}

HasRevenueAndDuration(agg) == {"revenue", "duration_minutes"} \subseteq agg

\* The quotient of the two sums whether or not the columns exist.
RpmOrPlaceholderQuotient(rows, agg, draw) ==
    [i \in DOMAIN rows |->
        [rows[i] EXCEPT !.rpm = <<rows[i].revenue, rows[i].duration_minutes>>]]

\* lines 471-474, 486-489, 499-502: the quotient of the two sums, with no
\* test of the denominator; a random placeholder when a column is missing.
RpmOrPlaceholder(rows, agg, draw) ==
    [i \in DOMAIN rows |->
        [rows[i] EXCEPT !.rpm = IF HasRevenueAndDuration(agg)
                                THEN <<rows[i].revenue, rows[i].duration_minutes>>
                                ELSE <<draw[i], 1>>]]

\* lines 564-565, 575-576, 585-586, 675-676, 693-694: the quotient, and no rpm
\* column when a column is missing.
RpmIfPossible(rows, agg) ==
    [i \in DOMAIN rows |->
        [rows[i] EXCEPT !.rpm = IF HasRevenueAndDuration(agg)
                                THEN <<rows[i].revenue, rows[i].duration_minutes>>
                                ELSE NoRpm]]

IsNaN(v) == v[1] = 0 /\ v[2] = 0

\* IEEE "<" on non-negative floats: false when either side is NaN.
Less(a, b) == ~IsNaN(a) /\ ~IsNaN(b) /\ a[1] * b[2] < b[1] * a[2]

ValueOf(row, col) == IF col = "rpm" THEN row.rpm ELSE <<row.revenue, 1>>

\* x goes before the first row that is strictly smaller.
InsertDesc(sorted, x, col) ==
    LET smaller == {i \in 1..Len(sorted) : Less(ValueOf(sorted[i], col), ValueOf(x, col))}
        pos     == IF smaller = {} THEN Len(sorted) + 1
                   ELSE CHOOSE i \in smaller : \A j \in smaller : i <= j
    IN  SubSeq(sorted, 1, pos - 1) \o <<x>> \o SubSeq(sorted, pos, Len(sorted))

RECURSIVE StableDesc(_, _)
StableDesc(rows, col) ==
    IF Len(rows) = 0 THEN << >>
    ELSE InsertDesc(StableDesc(SubSeq(rows, 1, Len(rows) - 1), col), rows[Len(rows)], col)

AsSeq(f) == [i \in 1..Len(f) |-> f[i]]

SortValuesAsc(rows, col) ==
    LET r == AsSeq(rows)
        d == StableDesc(SelectSeq(r, LAMBDA x : ~IsNaN(ValueOf(x, col))), col)
    IN  [i \in 1..Len(d) |-> d[Len(d) + 1 - i]]
            \o SelectSeq(r, LAMBDA x : IsNaN(ValueOf(x, col)))

\* sort_values(col, ascending=False): descending, NaN rows last; for frames of
\* fewer than 16 rows the default quicksort is an insertion sort, so rows with
\* equal values keep their order.
SortValuesDesc(rows, col) ==
    LET r == AsSeq(rows)
    IN  StableDesc(SelectSeq(r, LAMBDA x : ~IsNaN(ValueOf(x, col))), col)
            \o SelectSeq(r, LAMBDA x : IsNaN(ValueOf(x, col)))

\* lines 507-510, 591-594, 681-684
SortByRpmOrRevenue(rows, cols) ==
    IF "rpm" \in cols THEN SortValuesDesc(rows, "rpm")
    ELSE IF "revenue" \in cols THEN SortValuesDesc(rows, "revenue")
    ELSE AsSeq(rows)

\* pivot.groupby(the first n key columns).agg(agg) of an aggregated frame:
\* the sums of the groups' sums; the rpm column is not carried over.
GroupByKeyPrefix(rows, n, agg) ==
    LET keys == {SubSeq(rows[i].key, 1, n) : i \in DOMAIN rows}
        ks   == SortKeys(keys)
        members(k) == {i \in DOMAIN rows : SubSeq(rows[i].key, 1, n) = k}
    IN  [j \in 1..Len(ks) |->
            [key |-> ks[j],
             revenue |-> IF "revenue" \in agg
                         THEN SumOver(rows, members(ks[j]), "revenue") ELSE 0,
             duration_minutes |-> IF "duration_minutes" \in agg
                                  THEN SumOver(rows, members(ks[j]), "duration_minutes")
                                  ELSE 0,
             rpm |-> NoRpm]]

DimSet(dims) == {dims[i] : i \in 1..Len(dims)}

Written(cols, rows) == [written |-> TRUE, cols |-> cols, rows |-> rows]

NotWritten == [written |-> FALSE, cols |-> {}, rows |-> << >>]

TableFiles == {"creator_category_performance", "creator_time_slot_performance",
               "top_creators", "category_time_slot_performance",
               "category_day_performance", "top_categories",
               "category_cross_promotion", "time_slot_performance",
               "programming_calendar", "day_time_slot_performance"}

\* groupby raises KeyError for a dimension the frame lacks.
HasDims(cols, dims) == DimSet(dims) \subseteq cols \cup {"creator_tier", "creator_name"}

\* lines 427-514
create_creator_performance_pivot_tables(draw) ==
    LET cols  == sessions.cols \cup {"engagement_rate"}
        agg   == AggDict(cols, {"engagement_rate", "conversion_rate"})
        d1    == <<"creator_tier", "creator_name", "time_slot">>
        d2    == <<"creator_tier", "creator_name", "day_of_week", "time_slot">>
        d3    == <<"creator_tier", "creator_name">>
        out(dims) == RpmOrPlaceholder(GroupBy(sessions.rows, dims, agg), agg, draw)
        top   == RpmOrPlaceholder(GroupByKeyPrefix(out(d1), Len(d3), agg), agg, draw)
        ocols(dims) == DimSet(dims) \cup agg \cup {"rpm"}
    IN  IF ~("creator_id" \in cols /\ HasDims(cols, d1))
        THEN /\ aggPc' = "raised"
             /\ aggTables' = aggTables
        ELSE IF ~HasDims(cols, d2)
        THEN /\ aggPc' = "raised"
             /\ aggTables' = [aggTables EXCEPT
                    !["creator_category_performance"] = Written(ocols(d1), out(d1))]
        ELSE /\ aggPc' = "category"
             /\ aggTables' = [aggTables EXCEPT
                    !["creator_category_performance"] = Written(ocols(d1), out(d1)),
                    !["creator_time_slot_performance"] = Written(ocols(d2), out(d2)),
                    !["top_creators"] =
                        IF agg # {}
                        THEN Written(ocols(d3), SortByRpmOrRevenue(top, ocols(d3)))
                        ELSE NotWritten]

\* One vector of placeholder draws serves the three tables of a run.
CreateCreatorTables ==
    /\ aggPc = "creator"
    /\ \E draw \in IF HasRevenueAndDuration(sessions.cols)
                   THEN {[i \in 1..MaxSessions |-> RpmFallbackLow]}
                   ELSE [1..MaxSessions -> PlaceholderDraws] :
          create_creator_performance_pivot_tables(draw)
    /\ UNCHANGED sessions

CategoryField(cols) ==
    IF "category" \in cols THEN "category"
    ELSE IF "product_category" \in cols THEN "product_category"
    ELSE "none"

RpmCols(agg) == IF HasRevenueAndDuration(agg) THEN {"rpm"} ELSE {}

\* lines 605-612: sessions sorted by (session_date, time_slot), then the pairs
\* of consecutive categories within each date.
RECURSIVE StableBySlot(_)
StableBySlot(rows) ==
    IF Len(rows) = 0 THEN << >>
    ELSE LET done == StableBySlot(SubSeq(rows, 1, Len(rows) - 1))
             x    == rows[Len(rows)]
             later == {i \in 1..Len(done) :
                          \/ done[i].session_date > x.session_date
                          \/ /\ done[i].session_date = x.session_date
                             /\ Rank(done[i].time_slot) > Rank(x.time_slot)}
             pos  == IF later = {} THEN Len(done) + 1
                     ELSE CHOOSE i \in later : \A j \in later : i <= j
         IN  SubSeq(done, 1, pos - 1) \o <<x>> \o SubSeq(done, pos, Len(done))

SequentialPairs(rows) ==
    LET s == StableBySlot(AsSeq(rows))
    IN  {<<i, s[i].product_category, s[i + 1].product_category>> :
            i \in {j \in 1..(Len(s) - 1) : s[j].session_date = s[j + 1].session_date}}

\* lines 615-621: co-occurrence counts, strongest first.
CrossPromoCounts(rows) ==
    LET occ   == SequentialPairs(rows)
        keys  == {<<o[2], o[3]>> : o \in occ}
        ks    == SortKeys(keys)
        count == [j \in 1..Len(ks) |->
                    [key |-> ks[j], revenue |-> Cardinality({o \in occ : <<o[2], o[3]>> = ks[j]}),
                     duration_minutes |-> 0, rpm |-> NoRpm]]
    IN  SortValuesDesc(count, "revenue")

\* lines 526-628
create_category_performance_pivot_tables ==
    LET cols  == sessions.cols
        field == CategoryField(cols)
        agg   == AggDict(cols, {"conversion_rate"})
        d1    == <<field, "time_slot">>
        d2    == <<field, "day_of_week">>
        d3    == <<field>>
        out(dims) == RpmIfPossible(GroupBy(sessions.rows, dims, agg), agg)
        ocols(dims) == DimSet(dims) \cup agg \cup RpmCols(agg)
    IN  IF field = "none" \/ agg = {}
        THEN /\ aggPc' = "time_slot"
             /\ aggTables' = aggTables
        ELSE IF ~HasDims(cols, d1)
        THEN /\ aggPc' = "raised"
             /\ aggTables' = aggTables
        ELSE /\ aggPc' = "time_slot"
             /\ aggTables' = [aggTables EXCEPT
                    !["category_time_slot_performance"] = Written(ocols(d1), out(d1)),
                    !["category_day_performance"] =
                        IF "day_of_week" \in cols THEN Written(ocols(d2), out(d2))
                                                  ELSE NotWritten,
                    !["top_categories"] =
                        Written(ocols(d3), SortByRpmOrRevenue(out(d3), ocols(d3))),
                    !["category_cross_promotion"] =
                        IF /\ Len(sessions.rows) > 0
                           /\ {"session_id", "session_date"} \subseteq cols
                        THEN Written({"category_1", "category_2", "strength"},
                                     CrossPromoCounts(sessions.rows))
                        ELSE NotWritten]

CreateCategoryTables ==
    /\ aggPc = "category"
    /\ create_category_performance_pivot_tables
    /\ UNCHANGED sessions

\* lines 642-732
create_time_slot_performance_pivot_tables ==
    LET cols  == sessions.cols
        agg   == AggDict(cols, {"conversion_rate"})
        d1    == <<"time_slot">>
        d2    == <<"day_of_week", "time_slot">>
        out(dims) == RpmIfPossible(GroupBy(sessions.rows, dims, agg), agg)
        ocols(dims) == DimSet(dims) \cup agg \cup RpmCols(agg)
    IN  /\ aggPc' = "done"
        /\ IF "time_slot" \notin cols \/ agg = {}
           THEN aggTables' = aggTables
           ELSE aggTables' = [aggTables EXCEPT
                    !["time_slot_performance"] =
                        Written(ocols(d1), SortByRpmOrRevenue(out(d1), ocols(d1))),
                    !["day_time_slot_performance"] =
                        IF "day_of_week" \in cols THEN Written(ocols(d2), out(d2))
                                                  ELSE NotWritten,
                    !["programming_calendar"] =
                        IF "day_of_week" \in cols /\ CategoryField(cols) # "none"
                        THEN Written(DimSet(DayNames),
                                     GroupBy(sessions.rows, d1, {}))
                        ELSE NotWritten]

CreateTimeSlotTables ==
    /\ aggPc = "time_slot"
    /\ create_time_slot_performance_pivot_tables
    /\ UNCHANGED sessions

InitAggVars ==
    /\ \E cols \in ColumnSets : \E n \in 0..MaxSessions :
          \E rows \in [1..n -> SessionRows(cols)] :
              sessions = [cols |-> cols, rows |-> rows]
    /\ aggPc = "creator"
    /\ aggTables = [f \in TableFiles |-> NotWritten]

IdleAggVars ==
    /\ sessions = [cols |-> {}, rows |-> << >>]
    /\ aggPc = "idle"
    /\ aggTables = [f \in TableFiles |-> NotWritten]

(***************************************************************************)
(* Ranking & Recommendation Builder                                        *)
(*                                                                         *)
(* pivot_tables is a dict of dicts of sheets, as load_pivot_tables builds  *)
(* it with pd.read_excel(..., index_col=0): a sheet has flat column        *)
(* labels, one index label per row and a cell per row and column.  A label *)
(* is the tuple of its levels; a cell is a float <<n, d>>.                 *)
(*                                                                         *)
(* kind = "frame"       a DataFrame of numeric cells                       *)
(* kind = "mixed"       a DataFrame whose cells make every reduction and   *)
(*                      every .loc access raise                            *)
(* kind = "not_a_frame" an object without .columns / .index / .empty       *)
(***************************************************************************)
MaxSheetRows == 2

EmptyDict == [k \in {} |-> 0]

Get(d, k, default) == IF k \in DOMAIN d THEN d[k] ELSE default

Put(d, k, v) == (k :> v) @@ d

HasSheet(pt, analysis, sheet) ==
    analysis \in DOMAIN pt /\ sheet \in DOMAIN pt[analysis]

AttributeRaises(f) == f.kind = "not_a_frame"

DataRaises(f) == f.kind # "frame"

\* DataFrame.empty: an axis of length 0.
IsEmpty(f) == Len(f.index) = 0 \/ Len(f.columns) = 0

NaN == <<0, 0>>

Num(n) == <<n, 1>>

\* word in str(col).lower(), for the column labels the sheets carry
\* A missing label (NaN) in a level of a column label.
MissingLabel == "<missing>"

\* The column labels that are tuples (two-level columns), with their levels;
\* every other label of the model is a flat string.
ColumnLevels ==
    ("revenue_per_minute/Beauty" :> <<"revenue_per_minute", "Beauty">>)
    @@ ("revenue_per_minute/e" :> <<"revenue_per_minute", "e">>)
    @@ ("revenue/Evening" :> <<"revenue", "Evening">>)
    @@ ("revenue/e" :> <<"revenue", "e">>)
    @@ ("conversion_rate/Evening" :> <<"conversion_rate", "Evening">>)
    @@ ("conversion_rate/e" :> <<"conversion_rate", "e">>)
    @@ ("conversion_rate/nan" :> <<"conversion_rate", MissingLabel>>)

FirstLevel(col) == IF col \in DOMAIN ColumnLevels THEN ColumnLevels[col][1] ELSE col

Mentions(col, word) ==
    CASE word = "revenue_per_minute" -> FirstLevel(col) \in {"revenue_per_minute"}
      [] word = "revenue"            -> FirstLevel(col) \in {"revenue", "revenue_per_minute"}
      [] word = "conversion_rate"    -> FirstLevel(col) \in {"conversion_rate"}
      [] word = "engagement_rate"    -> FirstLevel(col) \in {"engagement_rate"}
      [] word = "price"              -> FirstLevel(col) \in {"price"}
      [] OTHER                       -> FALSE

\* [col for col in frame.columns if word in str(col).lower()], as positions
ColumnsMentioning(f, word) ==
    {j \in 1..Len(f.columns) : Mentions(f.columns[j], word)}

RECURSIVE SumCells(_, _)
SumCells(row, cols) ==
    IF cols = {} THEN 0
    ELSE LET j == CHOOSE c \in cols : TRUE
         IN  (IF IsNaN(row[j]) THEN 0 ELSE row[j][1]) + SumCells(row, cols \ {j})

\* frame[cols].sum(axis=1): NaN cells are skipped, so the sum is never NaN.
RowSums(f, cols) ==
    [i \in 1..Len(f.index) |-> [key |-> f.index[i], rpm |-> Num(SumCells(f.cells[i], cols))]]

FirstN(rows, n) == SubSeq(rows, 1, IF Len(rows) < n THEN Len(rows) ELSE n)

Keys(rows) == [i \in 1..Len(rows) |-> rows[i].key]

TopCreatorsN == 10

\* The first ten rows in the order of the sheet.
TopPerformersUnsorted(f, cols) ==
    LET numeric == SelectSeq(RowSums(f, cols), LAMBDA r : ~IsNaN(r.rpm))
    IN  Keys(FirstN(numeric, TopCreatorsN))

\* lines 135-142: to_numeric, dropna, sort_values(ascending=False).head(10)
TopPerformers(f, cols) ==
    LET numeric == SelectSeq(RowSums(f, cols), LAMBDA r : ~IsNaN(r.rpm))
    IN  Keys(FirstN(SortValuesDesc(numeric, "rpm"), TopCreatorsN))

\* lines 190-193, 199-202, 207-210
FallbackTopPerformers ==
    [creators |-> << <<"Top", "Creator_1">>, <<"Mid", "Creator_2">>, <<"Top", "Creator_3">> >>,
     optimal_categories |->
        << << <<"Top", "Creator_1">>, "Beauty" >>, << <<"Mid", "Creator_2">>, "Electronics" >>,
           << <<"Top", "Creator_3">>, "Home" >> >>,
     fallback |-> TRUE]

InIndex(f, label) == \E i \in 1..Len(f.index) : f.index[i] = label

\* Series.idxmax() over the cells at the positions cols: the position of the
\* first largest cell, NaN cells skipped; 0 when every cell is NaN.
ArgMax(row, cols) ==
    LET numeric == {j \in cols : ~IsNaN(row[j])}
    IN  IF numeric = {} THEN 0
        ELSE CHOOSE j \in numeric :
                /\ \A k \in numeric : ~Less(row[j], row[k])
                /\ \A k \in numeric : k < j => Less(row[k], row[j])

\* lines 176-177 and 239-240, 249-250: pd.isna(label) or label == "e" or
\* len(str(label).strip()) <= 1
IsDegenerate(label) == label = MissingLabel \/ label = "e" \/ Len(label) <= 1

\* frame.loc[label, cols].idxmax() and the second level of its label.  A
\* label that names several rows gives a DataFrame, whose idxmax is no
\* tuple; so is the idxmax of flat columns; an all-NaN row gives no label.
\* "none" stands for each of these outcomes.
SecondLevelOfMax(f, label, cols) ==
    IF DataRaises(f) \/ Cardinality({i \in 1..Len(f.index) : f.index[i] = label}) # 1
    THEN "none"
    ELSE LET i    == CHOOSE r \in 1..Len(f.index) : f.index[r] = label
             best == ArgMax(f.cells[i], cols)
         IN  IF best = 0 THEN "none"
             ELSE IF f.columns[best] \notin DOMAIN ColumnLevels THEN "none"
             ELSE ColumnLevels[f.columns[best]][2]

\* lines 145-181: the category of the largest revenue_per_minute column of
\* the creator, "Various" when it is no usable label.
OptimalCategory(ccp, creator, cols) ==
    LET best == SecondLevelOfMax(ccp, creator, cols)
    IN  IF best = "none" \/ IsDegenerate(best) THEN "Various" ELSE best

\* lines 121-210
CreatorTopPerformersStep(ccp) ==
    IF AttributeRaises(ccp) THEN FallbackTopPerformers
    ELSE IF ColumnsMentioning(ccp, "revenue_per_minute") = {} THEN FallbackTopPerformers
    ELSE IF DataRaises(ccp) THEN FallbackTopPerformers
    ELSE LET cols == ColumnsMentioning(ccp, "revenue_per_minute")
             top  == TopPerformers(ccp, cols)
         IN  [creators |-> top,
              optimal_categories |->
                 [i \in 1..Len(top) |-> <<top[i], OptimalCategory(ccp, top[i], cols)>>],
              fallback |-> FALSE]

\* lines 232-251: the time slot of the largest revenue column of the
\* creator, "Flexible" when it is no usable label.
OptimalTimeSlot(cts, creator, cols) ==
    LET best == SecondLevelOfMax(cts, creator, cols)
    IN  IF best = "none" \/ IsDegenerate(best) THEN "Flexible" ELSE best

\* lines 213-266: a dict creator -> time slot, as a sequence of <<creator, slot>>
CreatorTimeSlotsStep(r, cts, drawnSlot) ==
    LET tp == Get(r, "top_performers", [creators |-> << >>])
    IN  IF AttributeRaises(cts)
        THEN LET creators == Get(r, "top_performers", FallbackTopPerformers).creators
             IN  Put(r, "creator_time_slots",
                     [i \in 1..Len(creators) |-> <<creators[i], drawnSlot>>])
        ELSE IF ColumnsMentioning(cts, "revenue") = {} THEN r
        ELSE LET creators == IF tp.creators = << >> /\ ~IsEmpty(cts)
                             THEN FirstN(cts.index, TopCreatorsN)
                             ELSE tp.creators
             IN  Put(r, "creator_time_slots",
                     [i \in 1..Len(creators) |->
                        <<creators[i],
                          IF InIndex(cts, creators[i])
                          THEN OptimalTimeSlot(cts, creators[i], ColumnsMentioning(cts, "revenue"))
                          ELSE drawnSlot>>])

\* lines 291-311: the templates of the try block
TierStrategies ==
    ("Top" :> [focus |-> "High-value categories and prime time slots",
               frequency |-> "Regular weekly schedule",
               cross_promotion |-> "Pair with emerging creators"])
    @@ ("Mid" :> [focus |-> "Category specialization",
                  frequency |-> "Consistent bi-weekly schedule",
                  cross_promotion |-> "Pair with complementary categories"])
    @@ ("Emerging" :> [focus |-> "Building audience in niche categories",
                       frequency |-> "Start with bi-weekly, test different time slots",
                       cross_promotion |-> "Guest appearances with Top creators"])

ExceptTierStrategiesWithoutEmerging ==
    ("Top" :> [focus |-> "High-value categories and prime time slots",
               frequency |-> "Regular weekly schedule",
               cross_promotion |-> "Pair with emerging creators"])
    @@ ("Mid" :> [focus |-> "Category specialization",
                  frequency |-> "Consistent bi-weekly schedule",
                  cross_promotion |-> "Pair with complementary categories"])

\* lines 316-333: the templates of the except handler of the tier step
ExceptTierStrategies ==
    ("Top" :> [focus |-> "High-value categories and prime time slots",
               frequency |-> "Regular weekly schedule",
               cross_promotion |-> "Pair with emerging creators"])
    @@ ("Mid" :> [focus |-> "Category specialization",
                  frequency |-> "Consistent bi-weekly schedule",
                  cross_promotion |-> "Pair with complementary categories"])
    @@ ("Emerging" :> [focus |-> "Building audience in niche categories",
                       frequency |-> "Start with bi-weekly, test different time slots",
                       cross_promotion |-> "Guest appearances with Top creators"])

\* lines 351-367: the templates of the branch without creator data
NoDataTierStrategies ==
    ("Top" :> [focus |-> "High-value categories and prime time slots",
               frequency |-> "Regular weekly schedule",
               cross_promotion |-> "Pair with emerging creators"])
    @@ ("Mid" :> [focus |-> "Category specialization",
                  frequency |-> "Consistent bi-weekly schedule",
                  cross_promotion |-> "Pair with complementary categories"])
    @@ ("Emerging" :> [focus |-> "Building audience in niche categories",
                       frequency |-> "Start with bi-weekly, test different time slots",
                       cross_promotion |-> "Guest appearances with Top creators"])

\* lines 269-333: creator_category.index raises for a sheet that is no
\* frame, and the handler stores its own copy of the templates.
TierStrategiesStep(r, ccp) ==
    IF AttributeRaises(ccp) THEN Put(r, "tier_strategies", ExceptTierStrategies)
    ELSE Put(r, "tier_strategies", TierStrategies)

\* lines 335-368
FullFallbackCreatorRecs ==
    ("top_performers" :>
        [creators |-> << <<"Top", "Creator_1">>, <<"Top", "Creator_2">>, <<"Mid", "Creator_3">> >>,
         optimal_categories |->
            << << <<"Top", "Creator_1">>, "Beauty" >>, << <<"Top", "Creator_2">>, "Electronics" >>,
               << <<"Mid", "Creator_3">>, "Home" >> >>,
         fallback |-> TRUE])
    @@ ("creator_time_slots" :>
        << << <<"Top", "Creator_1">>, "Evening" >>, << <<"Top", "Creator_2">>, "Morning" >>,
           << <<"Mid", "Creator_3">>, "Afternoon" >> >>)
    @@ ("tier_strategies" :> NoDataTierStrategies)

Returned(value) == [raised |-> FALSE, value |-> value]

Raised == [raised |-> TRUE, value |-> EmptyDict]

\* lines 108-370
generate_creator_recommendations(pt, drawnSlot) ==
    IF HasSheet(pt, "creator_performance", "creator_category_performance")
    THEN LET sheets == pt["creator_performance"]
             r1 == Put(EmptyDict, "top_performers",
                       CreatorTopPerformersStep(sheets["creator_category_performance"]))
             r2 == IF "creator_time_slot_performance" \in DOMAIN sheets
                   THEN CreatorTimeSlotsStep(r1, sheets["creator_time_slot_performance"], drawnSlot)
                   ELSE r1
         IN  Returned(TierStrategiesStep(r2, sheets["creator_category_performance"]))
    ELSE Returned(FullFallbackCreatorRecs)

FinishRun(outcome) ==
    /\ recs' = Append(recs, outcome)
    /\ rankPc' = IF rankPc = "first" THEN "second" ELSE "done"
    /\ UNCHANGED <<builder, pivot_tables>>

\* The draws of np.random.choice are taken once per run: every entry that
\* needs a random time slot or trend in one run gets the same one, and the
\* model takes two of the possible draws.
RandomDraws ==
    {[slot |-> "Morning", trend |-> "increasing"], [slot |-> "Night", trend |-> "decreasing"]}

RunCreatorBuilder ==
    /\ builder = "creator"
    /\ rankPc \in {"first", "second"}
    /\ \E draw \in RandomDraws :
          FinishRun(generate_creator_recommendations(pivot_tables, draw.slot))

CellValues == {NaN, Num(1), Num(2)}

\* The sheets that are no numeric frame: a one-row frame of mixed cells and an
\* object that is no frame.
OddFrames(columnLists, label) ==
    {[kind |-> "mixed", columns |-> c, index |-> <<label>>,
      cells |-> << [j \in 1..Len(c) |-> NaN] >>] : c \in columnLists}
        \cup {[kind |-> "not_a_frame", columns |-> c, index |-> << >>, cells |-> << >>] :
                c \in columnLists}

\* The sheets of one shape: a column list, up to MaxSheetRows rows with index
\* labels from labels and cells from values.
Frames(columnLists, labels, values) ==
    UNION {
        {[kind |-> "frame", columns |-> c, index |-> idx, cells |-> cs] :
            idx \in [1..n -> labels], cs \in [1..n -> [1..Len(c) -> values]]} :
        c \in columnLists, n \in 0..MaxSheetRows}

CreatorLabels == {<<"BeautyGuru">>, <<"TechExpert">>}

\* One-row sheets with two-level columns.
TwoLevelFrames(columnLists, label) ==
    {[kind |-> "frame", columns |-> c, index |-> <<label>>, cells |-> <<cs>>] :
        c \in columnLists, cs \in [1..2 -> {Num(1), Num(2)}]}

CcpFrames ==
    Frames({<<"views">>, <<"revenue_per_minute">>}, CreatorLabels, CellValues)
        \cup TwoLevelFrames({<<"revenue_per_minute/Beauty", "revenue_per_minute/e">>},
                            <<"BeautyGuru">>)
        \cup OddFrames({<<"revenue_per_minute">>}, <<"BeautyGuru">>)

CtsFrames ==
    {f \in Frames({<<"views">>, <<"revenue">>}, CreatorLabels, {Num(1)}) : Len(f.index) <= 1}
        \cup TwoLevelFrames({<<"revenue/Evening", "revenue/e">>}, <<"BeautyGuru">>)
        \cup OddFrames({<<"revenue">>}, <<"BeautyGuru">>)

CreatorInputs ==
    {EmptyDict}
        \cup {"creator_performance" :> EmptyDict}
        \cup {"creator_performance" :> ("creator_category_performance" :> f) : f \in CcpFrames}
        \cup {"creator_performance" :>
                (("creator_category_performance" :> f)
                    @@ ("creator_time_slot_performance" :> g)) :
              f \in CcpFrames, g \in CtsFrames}

(***************************************************************************)
(* generate_category_recommendations                                       *)
(***************************************************************************)
SampleCategories == <<"Beauty", "Electronics", "Health", "Home", "Kitchen">>

TopCategoriesN == 5

TopPairsN == 10

\* {cat: drawn for cat in cats}
DictOf(cats, drawn) == [i \in 1..Len(cats) |-> <<cats[i], drawn>>]

\* Series.mean() of the cells at the positions cols: NaN cells are skipped.
MeanCells(row, cols) ==
    <<SumCells(row, cols), Cardinality({j \in cols : ~IsNaN(row[j])})>>

RowsOf(f, label) == {i \in 1..Len(f.index) : f.index[i] = label}

\* lines 416-431: the trend of one category.  A label that names one row
\* gives a Series over the revenue columns; a label that names several rows
\* gives a DataFrame, whose halves compare to a Series that has no truth
\* value, and the handler draws the trend.
TrendOf(f, label, rev, drawn) ==
    IF ~InIndex(f, label) \/ DataRaises(f) THEN drawn
    ELSE IF Cardinality(RowsOf(f, label)) > 1 THEN drawn
    ELSE IF Cardinality(rev) <= 1 THEN "stable"
    ELSE LET i      == CHOOSE r \in RowsOf(f, label) : TRUE
             half   == Cardinality(rev) \div 2
             first  == {j \in rev : Cardinality({k \in rev : k < j}) < half}
         IN  IF Less(MeanCells(f.cells[i], first), MeanCells(f.cells[i], rev \ first))
             THEN "increasing" ELSE "decreasing"

\* lines 388-443
TopCategoriesStep(r, trend, draw) ==
    LET sample == Put(Put(r, "top_categories", SampleCategories),
                      "category_trends", DictOf(SampleCategories, draw.trend))
        rev    == ColumnsMentioning(trend, "revenue")
    IN  IF AttributeRaises(trend) THEN sample
        ELSE IF rev = {} THEN sample
        ELSE LET top == IF DataRaises(trend) THEN SampleCategories
                        ELSE Keys(FirstN(SortValuesDesc(RowSums(trend, rev), "rpm"),
                                         TopCategoriesN))
             IN  Put(Put(r, "top_categories", top),
                     "category_trends",
                     [i \in 1..Len(top) |-> <<top[i], TrendOf(trend, top[i], rev, draw.trend)>>])

\* lines 481-495: idx_max[1] when the idxmax is a tuple, as it is;
\* "Flexible" otherwise.
CategoryTimeSlot(tsp, category, cols) ==
    LET best == SecondLevelOfMax(tsp, category, cols)
    IN  IF best = "none" THEN "Flexible" ELSE best

\* lines 446-522.  Line 476 asks "not categories_to_process" of the Index
\* taken at line 473; an Index has no truth value, so that path ends in the
\* handler at line 514.
CategoryTimeSlotsStep(r, tsp, draw) ==
    LET fallback == Put(r, "category_time_slots",
                        DictOf(Get(r, "top_categories", SampleCategories), draw.slot))
        top      == Get(r, "top_categories", << >>)
    IN  IF AttributeRaises(tsp) THEN fallback
        ELSE IF ColumnsMentioning(tsp, "conversion_rate") = {} THEN fallback
        ELSE IF top = << >> /\ ~IsEmpty(tsp) THEN fallback
        ELSE LET cats == IF top = << >> THEN SampleCategories ELSE top
             IN  Put(r, "category_time_slots",
                     [i \in 1..Len(cats) |->
                        <<cats[i],
                          IF InIndex(tsp, cats[i]) /\ ~DataRaises(tsp)
                          THEN CategoryTimeSlot(tsp, cats[i],
                                                ColumnsMentioning(tsp, "conversion_rate"))
                          ELSE draw.slot>>])

\* for i in range(len(cats)): for j in range(i+1, len(cats))
RECURSIVE PairsFrom(_, _, _)
PairsFrom(cats, i, j) ==
    IF i > Len(cats) THEN << >>
    ELSE IF j > Len(cats) THEN PairsFrom(cats, i + 1, i + 2)
    ELSE << <<cats[i], cats[j]>> >> \o PairsFrom(cats, i, j + 1)

AllPairs(cats) == PairsFrom(cats, 1, 2)

\* lines 531-552: the cells with value > 0, row by row; a cell whose
\* comparison raises is skipped.
RECURSIVE PositiveCells(_, _, _)
PositiveCells(f, i, j) ==
    IF i > Len(f.index) THEN << >>
    ELSE IF j > Len(f.columns) THEN PositiveCells(f, i + 1, 1)
    ELSE (IF ~DataRaises(f) /\ Less(Num(0), f.cells[i][j])
          THEN << [key |-> <<f.index[i], f.columns[j]>>, rpm |-> f.cells[i][j]] >>
          ELSE << >>)
         \o PositiveCells(f, i, j + 1)

\* np.random.randint(1, 10) for each fallback pair: the vectors the model
\* draws have at most one strength above the lowest.
StrengthDraws(n) ==
    {[i \in 1..n |-> IF i = hot THEN 9 ELSE 1] : hot \in 0..n}

\* lines 524-590
CrossPromotionStep(r, sheets, strengths) ==
    LET cats     == Get(r, "top_categories", SampleCategories)
        fallback == FirstN(AllPairs(cats), TopPairsN)
    IN  IF "category_cross_promotion" \notin DOMAIN sheets
        THEN Put(r, "cross_promotion_pairs", fallback)
        ELSE LET cross == sheets["category_cross_promotion"]
             IN  IF AttributeRaises(cross) THEN Put(r, "cross_promotion_pairs", fallback)
                 ELSE LET found == IF IsEmpty(cross) THEN << >>
                                   ELSE PositiveCells(cross, 1, 1)
                          pairs == IF found # << >> THEN found
                                   ELSE [i \in 1..Len(AllPairs(cats)) |->
                                            [key |-> AllPairs(cats)[i],
                                             rpm |-> Num(strengths[i])]]
                      IN  Put(r, "cross_promotion_pairs",
                              Keys(FirstN(StableDesc(pairs, "rpm"), TopPairsN)))

\* The strengths line 561 draws: one per fallback pair when the table yields
\* no pair, none otherwise.
StrengthsNeeded(r, sheets) ==
    IF "category_cross_promotion" \notin DOMAIN sheets THEN 0
    ELSE LET cross == sheets["category_cross_promotion"]
         IN  IF AttributeRaises(cross) THEN 0
             ELSE IF ~IsEmpty(cross) /\ PositiveCells(cross, 1, 1) # << >> THEN 0
             ELSE Len(AllPairs(Get(r, "top_categories", SampleCategories)))

\* lines 592-614
FullFallbackCategoryRecs(draw) ==
    ("top_categories" :> SampleCategories)
    @@ ("category_trends" :> DictOf(SampleCategories, draw.trend))
    @@ ("category_time_slots" :> DictOf(SampleCategories, draw.slot))
    @@ ("cross_promotion_pairs" :> FirstN(AllPairs(SampleCategories), TopPairsN))

\* lines 372-616, up to the cross-promotion step
CategoryRecsBeforePairs(pt, draw) ==
    LET sheets == pt["category_performance"]
        r1 == IF "category_time_trend" \in DOMAIN sheets
              THEN TopCategoriesStep(EmptyDict, sheets["category_time_trend"], draw)
              ELSE EmptyDict
    IN  IF HasSheet(pt, "time_slot_performance", "category_time_slot_performance")
        THEN CategoryTimeSlotsStep(r1, pt["time_slot_performance"]["category_time_slot_performance"], draw)
        ELSE r1

\* lines 372-616
generate_category_recommendations(pt, draw, strengths) ==
    IF "category_performance" \in DOMAIN pt
    THEN Returned(CrossPromotionStep(CategoryRecsBeforePairs(pt, draw),
                                     pt["category_performance"], strengths))
    ELSE Returned(FullFallbackCategoryRecs(draw))

RunCategoryBuilder ==
    /\ builder = "category"
    /\ rankPc \in {"first", "second"}
    /\ \E draw \in RandomDraws :
          LET n == IF "category_performance" \in DOMAIN pivot_tables
                   THEN StrengthsNeeded(CategoryRecsBeforePairs(pivot_tables, draw),
                                        pivot_tables["category_performance"])
                   ELSE 0
          IN  \E strengths \in StrengthDraws(n) :
                 FinishRun(generate_category_recommendations(pivot_tables, draw, strengths))

CategoryLabels == {"Beauty", "Toys"}

TrendFrames ==
    {f \in Frames({<<"views">>}, CategoryLabels, {Num(1)}) : Len(f.index) = 0}
        \cup Frames({<<"revenue">>}, CategoryLabels, CellValues)
        \cup OddFrames({<<"revenue">>}, "Beauty")

\* category_cross_promotion as a category x category matrix of counts
CrossFrames ==
    {[kind |-> "frame", columns |-> <<"Beauty", "Toys">>, index |-> idx, cells |-> cs] :
        idx \in {<<"Beauty", "Toys">>},
        cs \in [1..2 -> [1..2 -> {Num(0), Num(1), Num(2)}]]}
        \cup {[kind |-> "frame", columns |-> <<"Beauty", "Toys">>, index |-> << >>,
               cells |-> << >>]}
        \cup OddFrames({<<"Beauty", "Toys">>}, "Beauty")

CategoryTspFrames ==
    {f \in Frames({<<"views">>, <<"conversion_rate">>}, CategoryLabels, {Num(1)}) :
        Len(f.index) <= 1}
        \cup TwoLevelFrames({<<"conversion_rate/Evening", "conversion_rate/e">>,
                              <<"conversion_rate/Evening", "conversion_rate/nan">>}, "Beauty")
        \cup OddFrames({<<"conversion_rate">>}, "Beauty")

\* category_performance sheets: the trend sheet and the cross-promotion sheet,
\* each present or not
CategorySheets ==
    {EmptyDict}
        \cup {"category_time_trend" :> t : t \in TrendFrames}
        \cup {"category_cross_promotion" :> c : c \in CrossFrames}
        \cup {("category_time_trend" :> t) @@ ("category_cross_promotion" :> c) :
                t \in TrendFrames, c \in CrossFrames}

\* category_time_slot_performance varies where there is no cross-promotion
\* sheet
CategoryInputs ==
    {EmptyDict}
        \cup {"category_performance" :> sh : sh \in CategorySheets}
        \cup {("category_performance" :> sh)
                @@ ("time_slot_performance" :> ("category_time_slot_performance" :> g)) :
              sh \in {x \in CategorySheets : "category_cross_promotion" \notin DOMAIN x},
              g \in CategoryTspFrames}

(***************************************************************************)
(* generate_time_slot_recommendations                                      *)
(***************************************************************************)
TimeSlotList == <<"Morning", "Afternoon", "Evening", "Night">>

\* lines 633-641
RealisticHours ==
    [Monday |-> 8, Tuesday |-> 12, Wednesday |-> 19, Thursday |-> 17,
     Friday |-> 20, Saturday |-> 11, Sunday |-> 15]

\* lines 773-774
FallbackCategories ==
    <<"Beauty", "Electronics", "Health", "Home", "Kitchen",
      "Gaming", "Fashion", "Travel", "Crafts", "Pets">>

RECURSIVE SumColumn(_, _, _)
SumColumn(f, j, rows) ==
    IF rows = {} THEN 0
    ELSE LET i == CHOOSE r \in rows : TRUE
         IN  (IF IsNaN(f.cells[i][j]) THEN 0 ELSE f.cells[i][j][1])
                 + SumColumn(f, j, rows \ {i})

\* heatmap.mean(): the mean of each column, NaN cells skipped
ColumnMean(f, j) ==
    <<SumColumn(f, j, 1..Len(f.index)),
      Cardinality({i \in 1..Len(f.index) : ~IsNaN(f.cells[i][j])})>>

\* heatmap.mean(axis=1): the mean of each row
RowMean(f, i) == MeanCells(f.cells[i], 1..Len(f.columns))

\* Series.idxmax() / idxmin(): the first position holding the extreme value
IdxMax(vals) ==
    CHOOSE i \in 1..Len(vals) : /\ \A k \in 1..Len(vals) : ~Less(vals[i], vals[k])
                                /\ \A k \in 1..(i - 1) : Less(vals[k], vals[i])

IdxMin(vals) ==
    CHOOSE i \in 1..Len(vals) : /\ \A k \in 1..Len(vals) : ~Less(vals[k], vals[i])
                                /\ \A k \in 1..(i - 1) : Less(vals[i], vals[k])

HeatmapFallback(r) ==
    Put(Put(Put(r, "best_time_slot", TimeSlotList[1]),
            "worst_time_slot", TimeSlotList[Len(TimeSlotList)]),
        "best_day", DayNames[1])

\* lines 648-702
HeatmapStep(r, sheets) ==
    IF "time_slot_heatmap" \notin DOMAIN sheets THEN HeatmapFallback(r)
    ELSE LET heatmap == sheets["time_slot_heatmap"]
         IN  IF DataRaises(heatmap) \/ IsEmpty(heatmap) THEN HeatmapFallback(r)
             ELSE LET colmean == [j \in 1..Len(heatmap.columns) |-> ColumnMean(heatmap, j)]
                      rowmean == [i \in 1..Len(heatmap.index) |-> RowMean(heatmap, i)]
                  IN  Put(Put(Put(r,
                        "best_time_slot", heatmap.columns[IdxMax(colmean)]),
                        "worst_time_slot", heatmap.columns[IdxMin(colmean)]),
                        "best_day", heatmap.index[IdxMax(rowmean)])

\* lines 704-747: with flat column labels every path stores realistic_hours.
HourlyStep(r, sheets) == Put(r, "best_hours_by_day", RealisticHours)

\* lines 751-753
CalendarFromData(pt) ==
    /\ HasSheet(pt, "time_slot_performance", "category_time_slot_performance")
    /\ HasSheet(pt, "category_performance", "category_time_trend")

\* lines 780-793
CalendarTopCats(trend) ==
    LET cols == ColumnsMentioning(trend, "price") \cup ColumnsMentioning(trend, "revenue")
    IN  IF DataRaises(trend) \/ cols = {} THEN FallbackCategories
        ELSE Keys(FirstN(SortValuesDesc(RowSums(trend, cols), "rpm"), 10))

\* lines 796-812: a category of the sheet gets a performance only from a
\* revenue column that names the slot, and the sheets carry none; every other
\* category gets a drawn performance for each slot.  The drawn performances
\* are taken equal, so sorted() keeps the order of insertion.
RECURSIVE CatSlotEntries(_, _, _, _)
CatSlotEntries(cats, ctp, i, k) ==
    IF i > Len(cats) THEN << >>
    ELSE IF InIndex(ctp, cats[i]) \/ k > Len(TimeSlotList)
         THEN CatSlotEntries(cats, ctp, i + 1, 1)
    ELSE << <<cats[i], TimeSlotList[k]>> >> \o CatSlotEntries(cats, ctp, i, k + 1)

RECURSIVE CellOf(_, _, _, _)
CellOf(entries, day, slot, k) ==
    IF k > Len(entries) THEN << >>
    ELSE (IF ((k - 1) % Len(DayNames)) + 1 = day /\ entries[k][2] = slot
          THEN << entries[k][1] >> ELSE << >>)
         \o CellOf(entries, day, slot, k + 1)

\* lines 815-826: round-robin over the days, then every empty cell is filled
\* with random.sample(fallback_categories, 1 or 2).
DataCalendar(entries, fill) ==
    [d \in 1..Len(DayNames) |->
        [k \in 1..Len(TimeSlotList) |->
            LET cell == CellOf(entries, d, TimeSlotList[k], 1)
            IN  IF cell = << >> THEN <<fill>> ELSE cell]]

\* lines 749-879.  Outside the data path the calendar is drawn with
\* random.choices(range(1, 4), weights=[0, 0.4, 0.4, 0.2]) for Monday
\* morning: three values and four weights, a ValueError.  It is raised in the
\* try block (line 842) and again in its handler (line 873), and on line 907
\* when there is no time_slot_performance entry at all.
CalendarStep(r, pt, fill) ==
    IF ~CalendarFromData(pt) THEN Raised
    ELSE LET ctp   == pt["time_slot_performance"]["category_time_slot_performance"]
             trend == pt["category_performance"]["category_time_trend"]
         IN  IF AttributeRaises(ctp) THEN Raised
             ELSE IF /\ ColumnsMentioning(ctp, "revenue") # {}
                     /\ ColumnsMentioning(ctp, "conversion_rate") # {}
                     /\ AttributeRaises(trend)
                  THEN Raised
             ELSE IF /\ ColumnsMentioning(ctp, "revenue") # {}
                     /\ ColumnsMentioning(ctp, "conversion_rate") # {}
                     /\ ~IsEmpty(trend)
                  THEN Returned(Put(r, "programming_calendar",
                          DataCalendar(CatSlotEntries(CalendarTopCats(trend), ctp, 1, 1), fill)))
             ELSE Returned(Put(r, "programming_calendar", DataCalendar(<< >>, fill)))

\* lines 618-914
generate_time_slot_recommendations(pt, fill) ==
    IF "time_slot_performance" \in DOMAIN pt
    THEN LET sheets == pt["time_slot_performance"]
         IN  CalendarStep(HourlyStep(HeatmapStep(EmptyDict, sheets), sheets), pt, fill)
    ELSE Raised

RunTimeSlotBuilder ==
    /\ builder = "time_slot"
    /\ rankPc \in {"first", "second"}
    /\ \E fill \in {"Beauty", "Pets"} :
          FinishRun(generate_time_slot_recommendations(pivot_tables, fill))

HeatmapFrames ==
    {f \in Frames({<<"Morning", "Evening">>}, {"Monday", "Saturday"}, {Num(1), Num(2)}) :
        Len(f.index) <= 1}
        \cup OddFrames({<<"Morning", "Evening">>}, "Monday")

HourlyFrames ==
    {f \in Frames({<<"conversion_rate">>}, {"Monday"}, {Num(1)}) : Len(f.index) <= 1}
        \cup OddFrames({<<"conversion_rate">>}, "Monday")

CalendarTspFrames ==
    {f \in Frames({<<"views">>, <<"revenue">>, <<"revenue", "conversion_rate">>},
                  CategoryLabels, {Num(1)}) : Len(f.index) <= 1}
        \cup OddFrames({<<"revenue", "conversion_rate">>}, "Beauty")

CalendarTrendFrames == {f \in TrendFrames : Len(f.index) <= 1}

\* The heatmap and hourly sheets vary where there is no category sheet, the
\* category sheets where there is no heatmap and no hourly sheet.
TimeSlotInputs ==
    {EmptyDict}
        \cup {"time_slot_performance" :> EmptyDict}
        \cup {"time_slot_performance" :> ("time_slot_heatmap" :> h) : h \in HeatmapFrames}
        \cup {"time_slot_performance" :> ("hour_day_performance" :> h) : h \in HourlyFrames}
        \cup {"time_slot_performance" :> ("category_time_slot_performance" :> c) :
                c \in CalendarTspFrames}
        \cup {("time_slot_performance" :> ("category_time_slot_performance" :> c))
                @@ ("category_performance" :> ("category_time_trend" :> t)) :
              c \in CalendarTspFrames, t \in CalendarTrendFrames}
        \cup {("time_slot_performance" :>
                    (("category_time_slot_performance" :> c) @@ ("time_slot_heatmap" :> h)))
                @@ ("category_performance" :> ("category_time_trend" :> t)) :
              c \in {x \in CalendarTspFrames : Len(x.columns) = 2 /\ x.kind = "frame"},
              t \in {x \in CalendarTrendFrames : x.kind = "frame"},
              h \in HeatmapFrames}

(***************************************************************************)
(* generate_engagement_recommendations                                     *)
(***************************************************************************)
\* lines 952-956: the last cell exceeds the first and 1.2 times the first
ClearPositiveTrend(row) ==
    /\ Len(row) > 1
    /\ Less(row[1], row[Len(row)])
    /\ ~IsNaN(row[1]) /\ ~IsNaN(row[Len(row)])
    /\ 5 * row[Len(row)][1] * row[1][2] > 6 * row[1][1] * row[Len(row)][2]

HasDuplicateLabel(f) ==
    \E i, k \in 1..Len(f.index) : i # k /\ f.index[i] = f.index[k]

\* lines 933-960.  A label that names several rows gives a 2-D .values whose
\* comparison has no truth value; the handler prints and stores nothing.
CorrelationStep(r, corr) ==
    IF AttributeRaises(corr) THEN r
    ELSE IF DataRaises(corr) /\ Len(corr.index) > 0 THEN r
    ELSE IF Len(corr.columns) > 1 /\ HasDuplicateLabel(corr) THEN r
    ELSE Put(r, "engagement_driven_categories",
             Keys(SelectSeq([i \in 1..Len(corr.index) |->
                                [key |-> corr.index[i], row |-> corr.cells[i]]],
                            LAMBDA x : ClearPositiveTrend(x.row))))

\* lines 963-996: a template for each index label that is a known tier; a dict
\* keeps one entry per tier, in the order of first appearance.
TierEngagementStep(r, tiers) ==
    IF AttributeRaises(tiers) THEN r
    ELSE IF ColumnsMentioning(tiers, "engagement_rate") = {}
         THEN Put(r, "tier_engagement_strategies", << >>)
    ELSE Put(r, "tier_engagement_strategies",
             SelectSeq([i \in 1..Len(tiers.index) |->
                          IF \E k \in 1..(i - 1) : tiers.index[k] = tiers.index[i]
                          THEN "" ELSE tiers.index[i]],
                       LAMBDA t : t \in {"Top", "Mid", "Emerging"}))

\* lines 999-1051: the month is looked for in the second character of a flat
\* column label, so no month is found and the insights stay empty.
SeasonalStep(r, trend) ==
    IF AttributeRaises(trend) THEN r
    ELSE IF ColumnsMentioning(trend, "engagement_rate") = {} THEN r
    ELSE Put(r, "seasonal_engagement", << >>)

\* lines 916-1053
generate_engagement_recommendations(pt) ==
    IF "viewer_engagement" \notin DOMAIN pt THEN Returned(EmptyDict)
    ELSE LET sheets == pt["viewer_engagement"]
             r1 == IF "engagement_conversion_correlation" \in DOMAIN sheets
                   THEN CorrelationStep(EmptyDict, sheets["engagement_conversion_correlation"])
                   ELSE EmptyDict
             r2 == IF "engagement_by_tier" \in DOMAIN sheets
                   THEN TierEngagementStep(r1, sheets["engagement_by_tier"])
                   ELSE r1
         IN  Returned(IF "engagement_time_trend" \in DOMAIN sheets
                      THEN SeasonalStep(r2, sheets["engagement_time_trend"])
                      ELSE r2)

RunEngagementBuilder ==
    /\ builder = "engagement"
    /\ rankPc \in {"first", "second"}
    /\ FinishRun(generate_engagement_recommendations(pivot_tables))

CorrelationFrames ==
    Frames({<<"Low", "High">>}, CategoryLabels, {Num(1), Num(2)})
        \cup OddFrames({<<"Low", "High">>}, "Beauty")

TierFrames ==
    Frames({<<"views">>, <<"engagement_rate">>}, {"Top", "Mid", "Unknown"}, {Num(1)})
        \cup OddFrames({<<"engagement_rate">>}, "Top")

SeasonalFrames ==
    {f \in Frames({<<"views">>, <<"engagement_rate">>}, CategoryLabels, {Num(1)}) :
        Len(f.index) <= 1}
        \cup OddFrames({<<"engagement_rate">>}, "Beauty")

\* Each sheet varies on its own; the three steps share nothing.
EngagementInputs ==
    {EmptyDict}
        \cup {"viewer_engagement" :> EmptyDict}
        \cup {"viewer_engagement" :> ("engagement_conversion_correlation" :> f) :
                f \in CorrelationFrames}
        \cup {"viewer_engagement" :> ("engagement_by_tier" :> f) : f \in TierFrames}
        \cup {"viewer_engagement" :> ("engagement_time_trend" :> f) : f \in SeasonalFrames}
        \cup {"viewer_engagement" :>
                (("engagement_conversion_correlation" :> c) @@ ("engagement_by_tier" :> t)
                    @@ ("engagement_time_trend" :> e)) :
              c \in OddFrames({<<"Low", "High">>}, "Beauty"),
              t \in OddFrames({<<"engagement_rate">>}, "Top"),
              e \in OddFrames({<<"engagement_rate">>}, "Beauty")}

Builders == {"creator", "category", "time_slot", "engagement"}

Inputs(b) ==
    CASE b = "creator"    -> CreatorInputs
      [] b = "category"   -> CategoryInputs
      [] b = "time_slot"  -> TimeSlotInputs
      [] b = "engagement" -> EngagementInputs

InitRankVars ==
    /\ builder \in Builders
    /\ pivot_tables \in Inputs(builder)
    /\ rankPc = "first"
    /\ recs = << >>

IdleRankVars ==
    /\ builder = "none"
    /\ pivot_tables = EmptyDict
    /\ rankPc = "idle"
    /\ recs = << >>

(***************************************************************************)
(* Aggregation Engine: the engagement_rate column                          *)
(* (create_creator_performance_pivot_tables, lines 429-437)                *)
(***************************************************************************)
MaxRateSessions == 2

RateCols == {"engagement_rate", "likes", "comments", "views"}

LikeValues == {0, 1}

CommentValues == {0, 1}

ViewValues == {0, 2}

\* The engagement rate a frame that has the column already carries.
GivenRates == {<<1, 10>>}

\* The rows a frame with columns cols may hold; a column the frame lacks is
\* kept at 0 and never read.
RateRows(cols) ==
    {r \in [likes : LikeValues, comments : CommentValues, views : ViewValues] :
        /\ "likes" \notin cols => r.likes = 0
        /\ "comments" \notin cols => r.comments = 0
        /\ "views" \notin cols => r.views = 0}

\* Series / Series on numbers: n / 0 is inf, 0 / 0 is NaN.
Divide(n, d) == IF d = 0 THEN (IF n = 0 THEN <<0, 0>> ELSE <<1, 0>>) ELSE <<n, d>>

\* Series.fillna(0): a NaN becomes 0, every other value (inf included) stays.
FillNa0(v) == IF IsNaN(v) THEN <<0, 1>> ELSE v

DefaultEngagementRate == <<5, 100>>

\* The engagement_rate column after lines 429-437.
engagement_rate_column(frame) ==
    IF "engagement_rate" \in frame.cols
    THEN frame.given
    ELSE IF {"likes", "comments", "views"} \subseteq frame.cols
    THEN [i \in 1..Len(frame.rows) |->
             FillNa0(Divide(frame.rows[i].likes + frame.rows[i].comments,
                            frame.rows[i].views))]
    ELSE [i \in 1..Len(frame.rows) |-> DefaultEngagementRate]

AddEngagementRate ==
    /\ ratePc = "raw"
    /\ ratePc' = "filled"
    /\ rateColumn' = engagement_rate_column(rateFrame)
    /\ UNCHANGED rateFrame

InitRateVars ==
    /\ \E cols \in SUBSET RateCols : \E n \in 0..MaxRateSessions :
          \E rows \in [1..n -> RateRows(cols)] : \E given \in [1..n -> GivenRates] :
              rateFrame = [cols |-> cols, rows |-> rows, given |-> given]
    /\ ratePc = "raw"
    /\ rateColumn = << >>

IdleRateVars ==
    /\ rateFrame = [cols |-> {}, rows |-> << >>, given |-> << >>]
    /\ ratePc = "idle"
    /\ rateColumn = << >>

(***************************************************************************)
(* Dataset Loader: the tables load_real_data returns                       *)
(* (transformation block, lines 213-364; generate_sample_data, 40-114)     *)
(***************************************************************************)
MaxProducts == 2

MaxOrderItems == 2

MaxOrders == 1

\* A missing value (NaN / None) in a column of labels.
Null == "<null>"

\* product_category_name_translation.csv: source name -> English name.
CategoryTranslation ==
    ("beleza_saude" :> "health_beauty") @@ ("informatica_acessorios" :> "computers_accessories")

\* The product_category_name values of olist_products: translated ones, one
\* the translation table does not list, and a missing one.
SourceCategories == DOMAIN CategoryTranslation \cup {"pc_gamer", Null}

Sellers == <<"seller_a", "seller_b">>

\* pd.merge(olist_products, olist_category_translation, how='left')
product_category_name_english(name) ==
    IF name \in DOMAIN CategoryTranslation THEN CategoryTranslation[name] ELSE Null

\* groupby(['seller_id', 'product_category_name_english']).size(): the rows
\* whose category is missing are dropped by the groupby.
SellerCategoryCount(src, seller, cat) ==
    Cardinality({i \in 1..Len(src.items) :
        /\ src.items[i].seller = seller
        /\ product_category_name_english(src.products[src.items[i].product]) = cat})

\* sort_values(['seller_id', 'count'], ascending=[True, False]) and
\* groupby('seller_id').first(): a category of the highest count.
SellerTopCategories(src, seller) ==
    LET cats == {CategoryTranslation[n] : n \in DOMAIN CategoryTranslation}
        sold == {c \in cats : SellerCategoryCount(src, seller, c) > 0}
    IN  {c \in sold : \A d \in sold :
            SellerCategoryCount(src, seller, d) <= SellerCategoryCount(src, seller, c)}

\* how='left' merge, then creators['creator_category'].fillna('Other')
CreatorCategoryChoices(src, seller) ==
    IF SellerTopCategories(src, seller) = {} THEN {"Other"}
    ELSE SellerTopCategories(src, seller)

RealSessionCols ==
    {"session_id", "creator_id", "session_date", "day_of_week", "time_slot",
     "viewer_count", "engagement_rate", "conversion_rate", "product_category"}

\* The sample sessions with a category column.
SampleSessionColsWithCategory ==
    {"session_id", "creator_id", "session_date", "time_slot", "day_of_week",
     "duration_minutes", "views", "engagement_rate", "conversion_rate", "revenue",
     "product_category"}

SampleSessionCols ==
    {"session_id", "creator_id", "session_date", "time_slot", "day_of_week",
     "duration_minutes", "views", "engagement_rate", "conversion_rate", "revenue"}

SampleCategoryList ==
    << "Beauty", "Electronics", "Health", "Home", "Kitchen",
       "Gaming", "Fashion", "Travel", "Crafts", "Pets",
       "Sports", "Music", "Books", "Art", "Finance" >>

SampleProductCount == 99

\* The tables of the real-data path: products keep the merged column as it
\* is, creators get fillna('Other'), sessions take the category of the
\* creator drawn for them.
BuildRealTables ==
    /\ buildPc = "real"
    /\ \E cc \in [1..Len(Sellers) -> {"Other"} \cup
                      {CategoryTranslation[n] : n \in DOMAIN CategoryTranslation}] :
          /\ \A s \in 1..Len(Sellers) : cc[s] \in CreatorCategoryChoices(source, Sellers[s])
          /\ tables' =
                [products |-> [i \in 1..Len(source.products) |->
                                  product_category_name_english(source.products[i])],
                 creators |-> cc,
                 sessions |-> [cols |-> RealSessionCols,
                               category |-> [i \in 1..Len(source.drawn) |->
                                                cc[source.drawn[i]]]]]
    /\ buildPc' = "built"
    /\ UNCHANGED source

\* The tables of generate_sample_data: fixed category lists, and sessions
\* without a category column.
BuildSampleTables ==
    /\ buildPc = "sample"
    /\ tables' =
          [products |-> [i \in 1..SampleProductCount |->
                            SampleCategoryList[(i % Len(SampleCategoryList)) + 1]],
           creators |-> SampleCategoryList,
           sessions |-> [cols |-> SampleSessionCols, category |-> << >>]]
    /\ buildPc' = "built"
    /\ UNCHANGED source

NoSource == [products |-> << >>, items |-> << >>, drawn |-> << >>]

NoTables == [products |-> << >>, creators |-> << >>,
             sessions |-> [cols |-> {}, category |-> << >>]]

InitBuildVars ==
    /\ \/ /\ buildPc = "real"
          /\ \E n \in 0..MaxProducts : \E k \in 0..MaxOrderItems : \E o \in 0..MaxOrders :
                \E products \in [1..n -> SourceCategories] :
                \E items \in [1..k -> [seller : {Sellers[s] : s \in 1..Len(Sellers)},
                                       product : 1..n]] :
                \E drawn \in [1..o -> 1..Len(Sellers)] :
                    source = [products |-> products, items |-> items, drawn |-> drawn]
       \/ /\ buildPc = "sample"
          /\ source = NoSource
    /\ tables = NoTables

IdleBuildVars ==
    /\ buildPc = "idle"
    /\ source = NoSource
    /\ tables = NoTables

(***************************************************************************)
(* Report Renderer and main of generate_programming_strategy.py            *)
(* (generate_strategy_document, save_strategy_document,                    *)
(*  create_strategy_visualizations, main)                                  *)
(***************************************************************************)
MarkdownFile == "programming_strategy.md"

PdfFile == "programming_strategy.pdf"

ChartFiles ==
    << "top_creators_rpm.png", "programming_calendar_heatmap.png",
       "category_cross_promotion.png", "tier_strategies.png" >>

OutputFiles == {MarkdownFile, PdfFile} \cup {ChartFiles[i] : i \in 1..Len(ChartFiles)}

ListedEntries == 5

\* The lines a loop over entries[:5] adds: one line per entry.
EntryLines(entries, line) ==
    [i \in 1..(IF Len(entries) < ListedEntries THEN Len(entries) ELSE ListedEntries) |-> line]

RECURSIVE JoinCategories(_)
JoinCategories(cats) ==
    IF Len(cats) = 0 THEN ""
    ELSE IF Len(cats) = 1 THEN cats[1]
    ELSE cats[1] \o ", " \o JoinCategories(Tail(cats))

TierOrder == <<"Top", "Mid", "Emerging">>

RECURSIVE TierLines(_, _)
TierLines(strategies, k) ==
    IF k > Len(TierOrder) THEN << >>
    ELSE (IF TierOrder[k] \in DOMAIN strategies
          THEN << "#### " \o TierOrder[k] \o " Tier Creators",
                  "* **Focus**: " \o strategies[TierOrder[k]].focus,
                  "* **Frequency**: " \o strategies[TierOrder[k]].frequency,
                  "* **Cross-Promotion**: " \o strategies[TierOrder[k]].cross_promotion >>
          ELSE << >>)
         \o TierLines(strategies, k + 1)

\* lines 1087-1175
CreatorSection(r) ==
    (IF "top_performers" \in DOMAIN r
     THEN <<"### Top Performing Creators">>
            \o EntryLines(r["top_performers"].creators, "1. **creator** - Best in: category")
     ELSE << >>)
    \o (IF "creator_time_slots" \in DOMAIN r
        THEN <<"### Creator Time Slot Optimization">>
               \o EntryLines(IF "top_performers" \in DOMAIN r
                             THEN r["top_performers"].creators ELSE << >>,
                             "* **creator**: time slot")
        ELSE << >>)
    \o (IF "tier_strategies" \in DOMAIN r
        THEN <<"### Creator Tier Strategies">> \o TierLines(r["tier_strategies"], 1)
        ELSE << >>)

\* lines 1177-1226
CategorySection(r) ==
    (IF "top_categories" \in DOMAIN r
     THEN <<"### Top Performing Categories">>
            \o EntryLines(r["top_categories"], "1. **category** - Trend: trend")
     ELSE << >>)
    \o (IF "category_time_slots" \in DOMAIN r
        THEN <<"### Category Time Slot Optimization">>
               \o EntryLines(Get(r, "top_categories", << >>), "* **category**: time slot")
        ELSE << >>)
    \o (IF "cross_promotion_pairs" \in DOMAIN r
        THEN <<"### Category Cross-Promotion Opportunities">>
               \o EntryLines(r["cross_promotion_pairs"], "* **category** + **category**")
        ELSE << >>)

RECURSIVE CalendarLines(_, _)
CalendarLines(calendar, d) ==
    IF d > Len(DayNames) THEN << >>
    ELSE (IF d <= Len(calendar)
          THEN <<"#### " \o DayNames[d]>>
                 \o [k \in 1..Len(TimeSlotList) |->
                       "* **" \o TimeSlotList[k] \o "**: "
                          \o (IF k <= Len(calendar[d]) /\ Len(calendar[d][k]) > 0
                              THEN JoinCategories(calendar[d][k])
                              ELSE "No programming")]
          ELSE <<"#### " \o DayNames[d], "* No data available for this day">>)
         \o CalendarLines(calendar, d + 1)

\* lines 1228-1290
TimeSlotSection(r) ==
    (IF "best_time_slot" \in DOMAIN r
     THEN <<"### Overall Time Slot Performance",
            "- **Best performing time slot**: " \o r["best_time_slot"],
            "- **Weakest performing time slot**: " \o Get(r, "worst_time_slot", "N/A"),
            "- **Best performing day**: " \o Get(r, "best_day", "N/A")>>
     ELSE << >>)
    \o (IF "best_hours_by_day" \in DOMAIN r
        THEN <<"### Optimal Hours by Day">>
               \o [d \in 1..Len(DayNames) |-> "* **" \o DayNames[d] \o "**: hour"]
        ELSE << >>)
    \o (IF "programming_calendar" \in DOMAIN r
        THEN <<"### Weekly Programming Calendar">> \o CalendarLines(r["programming_calendar"], 1)
        ELSE << >>)

\* lines 1292-1351
EngagementSection(r) ==
    (IF "engagement_driven_categories" \in DOMAIN r
     THEN <<"### High Engagement-Conversion Categories">>
            \o EntryLines(r["engagement_driven_categories"], "* **category**: recommendation")
     ELSE << >>)
    \o (IF "tier_engagement_strategies" \in DOMAIN r
        THEN <<"### Creator Tier Engagement Strategies">>
               \o [i \in 1..Len(r["tier_engagement_strategies"]) |->
                     "#### " \o r["tier_engagement_strategies"][i] \o " Tier Creators"]
        ELSE << >>)
    \o (IF "seasonal_engagement" \in DOMAIN r
        THEN <<"### Seasonal Programming Strategies">>
               \o EntryLines(r["seasonal_engagement"], "* **category** - Peak: months")
        ELSE << >>)

\* The renderer with the heading of the category section written only when
\* there are category recommendations.
generate_strategy_document_headingInBlock(recommendations_) ==
    <<"# Amazon Live Programming Strategy", "## Executive Summary",
      "## 1. Creator Programming Recommendations">>
    \o (IF "creator" \in DOMAIN recommendations_
        THEN CreatorSection(recommendations_["creator"]) ELSE << >>)
    \o (IF "category" \in DOMAIN recommendations_
        THEN <<"## 2. Category Programming Recommendations">>
               \o CategorySection(recommendations_["category"])
        ELSE << >>)
    \o <<"## 3. Time Slot Optimization">>
    \o (IF "time_slot" \in DOMAIN recommendations_
        THEN TimeSlotSection(recommendations_["time_slot"]) ELSE << >>)
    \o <<"## 4. Viewer Engagement Strategies">>
    \o (IF "engagement" \in DOMAIN recommendations_
        THEN EngagementSection(recommendations_["engagement"]) ELSE << >>)
    \o <<"## Implementation Plan", "### 1. Immediate Actions (Next 30 Days)",
         "### 2. Medium-Term Actions (60-90 Days)", "### 3. Long-Term Strategy (90+ Days)",
         "## Measurement Framework">>

\* lines 1055-1378: the lines of the document, list entries reduced to one
\* fixed line per entry
generate_strategy_document(recommendations_) ==
    <<"# Amazon Live Programming Strategy", "## Executive Summary",
      "## 1. Creator Programming Recommendations">>
    \o (IF "creator" \in DOMAIN recommendations_
        THEN CreatorSection(recommendations_["creator"]) ELSE << >>)
    \o <<"## 2. Category Programming Recommendations">>
    \o (IF "category" \in DOMAIN recommendations_
        THEN CategorySection(recommendations_["category"]) ELSE << >>)
    \o <<"## 3. Time Slot Optimization">>
    \o (IF "time_slot" \in DOMAIN recommendations_
        THEN TimeSlotSection(recommendations_["time_slot"]) ELSE << >>)
    \o <<"## 4. Viewer Engagement Strategies">>
    \o (IF "engagement" \in DOMAIN recommendations_
        THEN EngagementSection(recommendations_["engagement"]) ELSE << >>)
    \o <<"## Implementation Plan", "### 1. Immediate Actions (Next 30 Days)",
         "### 2. Medium-Term Actions (60-90 Days)", "### 3. Long-Term Strategy (90+ Days)",
         "## Measurement Framework">>

\* One call of main to a builder: the result is stored under key, an
\* exception leaves main (lines 2012-2022 have no try).
StoreRecommendations(key, outcome, next) ==
    IF outcome.raised
    THEN /\ mainPc' = "raised"
         /\ UNCHANGED <<runInput, recommendations, markdown, attempted>>
    ELSE /\ mainPc' = next
         /\ recommendations' = Put(recommendations, key, outcome.value)
         /\ UNCHANGED <<runInput, markdown, attempted>>

\* line 2012
CallCreatorBuilder ==
    /\ mainPc = "creator"
    /\ \E draw \in RandomDraws :
          StoreRecommendations("creator",
              generate_creator_recommendations(runInput.pt, draw.slot), "category")

\* line 2015
CallCategoryBuilder ==
    /\ mainPc = "category"
    /\ \E draw \in RandomDraws :
          LET n == IF "category_performance" \in DOMAIN runInput.pt
                   THEN StrengthsNeeded(CategoryRecsBeforePairs(runInput.pt, draw),
                                        runInput.pt["category_performance"])
                   ELSE 0
          IN  \E strengths \in StrengthDraws(n) :
                 StoreRecommendations("category",
                     generate_category_recommendations(runInput.pt, draw, strengths),
                     "time_slot")

\* line 2018
CallTimeSlotBuilder ==
    /\ mainPc = "time_slot"
    /\ \E fill \in {"Beauty", "Pets"} :
          StoreRecommendations("time_slot",
              generate_time_slot_recommendations(runInput.pt, fill), "engagement")

\* line 2021
CallEngagementBuilder ==
    /\ mainPc = "engagement"
    /\ StoreRecommendations("engagement",
           generate_engagement_recommendations(runInput.pt), "document")

\* lines 2024-2033
GenerateDocument ==
    /\ mainPc = "document"
    /\ markdown' = generate_strategy_document(recommendations)
    /\ mainPc' = "save"
    /\ UNCHANGED <<runInput, recommendations, attempted>>

\* lines 1380-1393 called at line 2036: open() and write() with no try
save_strategy_document ==
    /\ mainPc = "save"
    /\ attempted' = Append(attempted, MarkdownFile)
    /\ mainPc' = IF MarkdownFile \in runInput.unwritable THEN "raised" ELSE "visualize"
    /\ UNCHANGED <<runInput, recommendations, markdown>>

\* The charts create_strategy_visualizations draws for these
\* recommendations, in its order (lines 1404, 1481, 1794, 1942).
ScheduledCharts(recommendations_) ==
    SelectSeq(ChartFiles, LAMBDA f :
        CASE f = "top_creators_rpm.png" ->
                "creator" \in DOMAIN recommendations_
                    /\ "top_performers" \in DOMAIN recommendations_["creator"]
          [] f = "programming_calendar_heatmap.png" ->
                "time_slot" \in DOMAIN recommendations_
                    /\ "programming_calendar" \in DOMAIN recommendations_["time_slot"]
          [] f = "category_cross_promotion.png" ->
                "category" \in DOMAIN recommendations_
                    /\ "cross_promotion_pairs" \in DOMAIN recommendations_["category"]
          [] f = "tier_strategies.png" ->
                "creator" \in DOMAIN recommendations_
                    /\ "tier_strategies" \in DOMAIN recommendations_["creator"])

\* The handlers of the first two charts (lines 1475-1478, 1788-1791) call a
\* fallback that saves the same file with no try around it; the handlers of
\* the last two (lines 1938-1939, 1968-1969) only print.
HandlerSavesAgain(f) == f \in {"top_creators_rpm.png", "programming_calendar_heatmap.png"}

\* The write attempts of create_strategy_visualizations up to its return or
\* up to the exception that leaves it.
RECURSIVE ChartAttempts(_, _, _)
ChartAttempts(charts, k, unwritable) ==
    IF k > Len(charts) THEN [files |-> << >>, raised |-> FALSE]
    ELSE IF charts[k] \in unwritable /\ HandlerSavesAgain(charts[k])
         THEN [files |-> <<charts[k], charts[k]>>, raised |-> TRUE]
    ELSE LET rest == ChartAttempts(charts, k + 1, unwritable)
         IN  [files |-> <<charts[k]>> \o rest.files, raised |-> rest.raised]

\* lines 1395-1969 called at line 2039
create_strategy_visualizations ==
    /\ mainPc = "visualize"
    /\ LET run == ChartAttempts(ScheduledCharts(recommendations), 1, runInput.unwritable)
       IN  /\ attempted' = attempted \o run.files
           /\ mainPc' = IF run.raised THEN "raised" ELSE "pdf"
    /\ UNCHANGED <<runInput, recommendations, markdown>>

\* lines 2041-2059: every failure of the conversion is caught and printed;
\* lines 2061-2063 print the completion message.
CreatePdf ==
    /\ mainPc = "pdf"
    /\ attempted' = Append(attempted, PdfFile)
    /\ mainPc' = "done"
    /\ UNCHANGED <<runInput, recommendations, markdown>>

\* The pivot tables main loads: none (no analysis file exists), or the
\* sheets the programming calendar is built from.
MainInputs ==
    {EmptyDict}
        \cup {("time_slot_performance" :> ("category_time_slot_performance" :> c))
                @@ ("category_performance" :> ("category_time_trend" :> t)) :
              c \in CalendarTspFrames, t \in CalendarTrendFrames}

\* No output or one output cannot be written.
WriteFailures == {{}} \cup {{f} : f \in OutputFiles}

InitMainVars ==
    /\ \E pt \in MainInputs : \E unwritable \in WriteFailures :
          runInput = [pt |-> pt, unwritable |-> unwritable]
    /\ mainPc = "creator"
    /\ recommendations = EmptyDict
    /\ markdown = << >>
    /\ attempted = << >>

IdleMainVars ==
    /\ runInput = [pt |-> EmptyDict, unwritable |-> {}]
    /\ mainPc = "idle"
    /\ recommendations = EmptyDict
    /\ markdown = << >>
    /\ attempted = << >>

(***************************************************************************)
(* Report Renderer: generate_strategy_document on its own                  *)
(***************************************************************************)
\* What each builder can return, over the inputs of the builders above.
CreatorValues ==
    {generate_creator_recommendations(pt, draw.slot).value :
        pt \in CreatorInputs, draw \in RandomDraws}

CategoryValues ==
    {generate_category_recommendations(pt, draw, << >>).value :
        pt \in {x \in CategoryInputs :
                  "category_performance" \notin DOMAIN x
                     \/ "category_cross_promotion" \notin DOMAIN x["category_performance"]},
        draw \in RandomDraws}

TimeSlotValues ==
    {o.value : o \in {x \in {generate_time_slot_recommendations(pt, fill) :
                                pt \in TimeSlotInputs, fill \in {"Beauty", "Pets"}} :
                        ~x.raised}}

EngagementValues ==
    {generate_engagement_recommendations(pt).value : pt \in EngagementInputs}

RecommendationKeys == <<"creator", "category", "time_slot", "engagement">>

ValuesOf(key) ==
    CASE key = "creator"    -> CreatorValues
      [] key = "category"   -> CategoryValues
      [] key = "time_slot"  -> TimeSlotValues
      [] key = "engagement" -> EngagementValues

\* One value per key, used for the keys that do not vary.
UsualValue(key) ==
    CASE key = "creator"    -> generate_creator_recommendations(EmptyDict, "Morning").value
      [] key = "category"   ->
            generate_category_recommendations(EmptyDict, CHOOSE d \in RandomDraws : TRUE, << >>).value
      [] key = "time_slot"  -> CHOOSE v \in TimeSlotValues : "programming_calendar" \in DOMAIN v
      [] key = "engagement" -> generate_engagement_recommendations(EmptyDict).value

\* The dictionaries handed to generate_strategy_document: any subset of the
\* four keys, one of them with any value its builder returns.
RenderInputs ==
    {EmptyDict}
        \cup UNION {{[k \in present |-> IF k = varying THEN v ELSE UsualValue(k)] :
                        v \in ValuesOf(varying)} :
                    <<present, varying>> \in
                        {x \in (SUBSET {RecommendationKeys[i] : i \in 1..4})
                                  \X {RecommendationKeys[i] : i \in 1..4} :
                            x[2] \in x[1]}}

InitRenderVars ==
    /\ runInput = [pt |-> EmptyDict, unwritable |-> {}]
    /\ mainPc = "document"
    /\ recommendations \in RenderInputs
    /\ markdown = << >>
    /\ attempted = << >>

(***************************************************************************)
(* Aggregation Engine: create_viewer_engagement_pivot_tables               *)
(***************************************************************************)
MaxEngagement == 3

\* lines 369-376 (real data) and 127-145 (sample data)
RealEngagementCols == {"customer_id", "session_id", "engagement_type", "engagement_value"}

SampleEngagementCols ==
    {"creator_id", "video_id", "likes", "comments", "shares", "engagement_score"}

EngagementColumnSets ==
    {RealEngagementCols \ drop : drop \in SUBSET {"engagement_type", "engagement_value"}}
        \cup {SampleEngagementCols}

\* line 372, and two values the mapping does not name: another type and NaN
EngagementTypes == {"View", "Like", "Comment", "Share", "Purchase", "Follow", Null}

EngagementValueChoices == {Num(1), Num(2), Num(7), NaN}

\* The sessions table has one session; an engagement record may name it or a
\* session the table does not hold.
SessionIds == {1}

RecordSessionIds == SessionIds \cup {2}

\* The rows a frame with columns cols may hold; a column the frame lacks is
\* kept at one value and never read.  Frames with both engagement columns
\* take three of the types and two of the values.
EngagementRows(cols) ==
    {r \in [session_id : RecordSessionIds, engagement_type : EngagementTypes,
            engagement_value : EngagementValueChoices] :
        /\ "session_id" \notin cols => r.session_id = 1
        /\ "engagement_type" \notin cols => r.engagement_type = Null
        /\ "engagement_value" \notin cols => IsNaN(r.engagement_value)
        /\ {"engagement_type", "engagement_value"} \subseteq cols =>
              /\ r.engagement_type \in {"View", "Share", "Follow"}
              /\ r.engagement_value \in {Num(1), Num(7)}}

\* merge(on='session_id'): a column both frames have, other than the key, is
\* renamed with a suffix on each side.
MergedCols(ecols, scols) == (ecols \cup scols) \ ((ecols \cap scols) \ {"session_id"})

\* lines 771-778: .map(engagement_level_mapping).fillna('Low')
engagement_level_mapping ==
    ("View" :> "Low") @@ ("Like" :> "Medium") @@ ("Comment" :> "Medium")
        @@ ("Share" :> "High") @@ ("Purchase" :> "High")

LevelOfType(type) ==
    IF type \in DOMAIN engagement_level_mapping THEN engagement_level_mapping[type] ELSE "Low"

RECURSIVE InsertAsc(_, _)
InsertAsc(sorted, x) ==
    IF Len(sorted) = 0 THEN <<x>>
    ELSE IF x <= Head(sorted) THEN <<x>> \o sorted
    ELSE <<Head(sorted)>> \o InsertAsc(Tail(sorted), x)

RECURSIVE SortAsc(_)
SortAsc(xs) == IF Len(xs) = 0 THEN << >> ELSE InsertAsc(SortAsc(Tail(xs)), Head(xs))

\* line 783: q=[0, 0.33, 0.67, 1], in hundredths
QuantileCuts == <<0, 33, 67, 100>>

\* 100 times the q-quantile of the sorted values xs, by linear interpolation
\* between the two nearest ranks.
Quantile(xs, q) ==
    LET p == q * (Len(xs) - 1)
        f == p \div 100
        r == p % 100
    IN  100 * xs[f + 1] + (IF r = 0 THEN 0 ELSE r * (xs[f + 2] - xs[f + 1]))

\* lines 781-785: pd.qcut.  NaN values take no part in the quantiles and get
\* no level; bin edges that are not strictly increasing (or no value at all)
\* raise ValueError.
Qcut(values) ==
    LET present == SelectSeq(values, LAMBDA v : ~IsNaN(v))
        xs      == SortAsc([i \in 1..Len(present) |-> present[i][1]])
        edges   == [k \in 1..Len(QuantileCuts) |-> Quantile(xs, QuantileCuts[k])]
        level(v) == IF IsNaN(v) THEN Null
                    ELSE IF 100 * v[1] <= edges[2] THEN "Low"
                    ELSE IF 100 * v[1] <= edges[3] THEN "Medium"
                    ELSE "High"
    IN  IF Len(xs) = 0 \/ \E k \in 1..(Len(QuantileCuts) - 1) : edges[k] >= edges[k + 1]
        THEN [raised |-> TRUE, levels |-> << >>]
        ELSE [raised |-> FALSE, levels |-> [i \in 1..Len(values) |-> level(values[i])]]

EngagementFiles ==
    << [dims |-> {"creator_id"}, file |-> "engagement_by_creator_tier"],
       [dims |-> {"time_slot"}, file |-> "engagement_by_time_slot"],
       [dims |-> {"category", "product_category"}, file |-> "engagement_by_category"] >>

\* lines 791-835: the three group-bys, each under its column guard; .agg
\* raises KeyError when merged_data has no conversion_rate.
RECURSIVE EngagementWrites(_, _)
EngagementWrites(mcols, k) ==
    IF k > Len(EngagementFiles) THEN [files |-> {}, raised |-> FALSE]
    ELSE IF EngagementFiles[k].dims \cap mcols = {} THEN EngagementWrites(mcols, k + 1)
    ELSE IF "conversion_rate" \notin mcols THEN [files |-> {}, raised |-> TRUE]
    ELSE LET rest == EngagementWrites(mcols, k + 1)
         IN  [files |-> {EngagementFiles[k].file} \cup rest.files, raised |-> rest.raised]

WithLevels(rows, levels) ==
    [i \in 1..Len(rows) |->
        [session_id |-> rows[i].session_id, engagement_type |-> rows[i].engagement_type,
         engagement_value |-> rows[i].engagement_value, engagement_level |-> levels[i]]]

NoLevels(rows) == [i \in 1..Len(rows) |-> Null]

\* lines 734-839
create_viewer_engagement_pivot_tables ==
    /\ engPc = "start"
    /\ LET ecols  == engagement_data.cols
           mcols  == MergedCols(ecols, engagementSessionCols)
           joined == SelectSeq(engagement_data.rows, LAMBDA r : r.session_id \in SessionIds)
           writes == EngagementWrites(mcols, 1)
           finish(levels) ==
               /\ merged_data' = WithLevels(joined, levels)
               /\ engWritten' = writes.files
               /\ engPc' = IF writes.raised THEN "failed" ELSE "saved"
       IN  IF Len(engagement_data.rows) = 0
                \/ "session_id" \notin ecols \/ "session_id" \notin engagementSessionCols
           THEN /\ engPc' = "skipped"
                /\ UNCHANGED <<merged_data, engWritten>>
           ELSE IF "engagement_type" \in mcols
           THEN finish([i \in 1..Len(joined) |-> LevelOfType(joined[i].engagement_type)])
           ELSE IF "engagement_value" \in mcols
           THEN LET cut == Qcut([i \in 1..Len(joined) |-> joined[i].engagement_value])
                IN  IF cut.raised
                    THEN /\ merged_data' = WithLevels(joined, NoLevels(joined))
                         /\ engWritten' = {}
                         /\ engPc' = "failed"
                    ELSE finish(cut.levels)
           ELSE \E drawn \in [1..Len(joined) -> {"Low", "Medium", "High"}] : finish(drawn)
    /\ UNCHANGED <<engagement_data, engagementSessionCols>>

InitEngagementVars ==
    /\ \E cols \in EngagementColumnSets : \E n \in 0..MaxEngagement :
          \E rows \in [1..n -> EngagementRows(cols)] :
              engagement_data = [cols |-> cols, rows |-> rows]
    /\ engagementSessionCols \in {RealSessionCols, SampleSessionCols}
    /\ engPc = "start"
    /\ merged_data = << >>
    /\ engWritten = {}

IdleEngagementVars ==
    /\ engagement_data = [cols |-> {}, rows |-> << >>]
    /\ engagementSessionCols = {}
    /\ engPc = "idle"
    /\ merged_data = << >>
    /\ engWritten = {}

(***************************************************************************)
(* Ranking & Recommendation Builder: sheets longer than the top-N cuts     *)
(***************************************************************************)
MaxLongRows == 12

MaxCrossSide == 4

\* The cell of position k of a long sheet: one of NaN, 0, 1, 2, 3, the
\* positions running through them in steps of a from b.
PatternCell(a, b, k) ==
    LET v == (a * k + b) % 5 IN IF v = 4 THEN NaN ELSE Num(v)

Patterns == (0..4) \X (0..4)

LongCreatorLabel(i) == <<"Creator_" \o ToString(i)>>

LongCategoryLabel(i) == "Category_" \o ToString(i)

\* One-column sheets of n rows with distinct index labels.
LongCreatorFrames ==
    {[kind |-> "frame", columns |-> <<"revenue_per_minute">>,
      index |-> [i \in 1..n |-> LongCreatorLabel(i)],
      cells |-> [i \in 1..n |-> <<PatternCell(p[1], p[2], i)>>]] :
        n \in 0..MaxLongRows, p \in Patterns}

LongTrendFrames ==
    {[kind |-> "frame", columns |-> <<"revenue">>,
      index |-> [i \in 1..n |-> LongCategoryLabel(i)],
      cells |-> [i \in 1..n |-> <<PatternCell(p[1], p[2], i)>>]] :
        n \in 0..MaxLongRows, p \in Patterns}

\* Square co-occurrence sheets: category by category.
LongCrossFrames ==
    {[kind |-> "frame", columns |-> [j \in 1..n |-> LongCategoryLabel(j)],
      index |-> [i \in 1..n |-> LongCategoryLabel(i)],
      cells |-> [i \in 1..n |-> [j \in 1..n |-> PatternCell(p[1], p[2], (i - 1) * n + j)]]] :
        n \in 0..MaxCrossSide, p \in Patterns}

LongInputs(b) ==
    IF b = "creator"
    THEN {"creator_performance" :> ("creator_category_performance" :> f) :
            f \in LongCreatorFrames}
    ELSE {"category_performance" :> ("category_time_trend" :> f) : f \in LongTrendFrames}
            \cup {"category_performance" :> ("category_cross_promotion" :> f) :
                    f \in LongCrossFrames}

InitTopNVars ==
    /\ builder \in {"creator", "category"}
    /\ pivot_tables \in LongInputs(builder)
    /\ rankPc = "first"
    /\ recs = << >>

(***************************************************************************)
(* The hand-off between the two programs: the analysis directory           *)
(***************************************************************************)
\* lines 36-41 of generate_programming_strategy.py
analysis_types ==
    <<"creator_performance", "time_slot_performance", "category_performance",
      "viewer_engagement">>

\* line 44: the file load_pivot_tables looks for
PivotTablesFile(analysis_type) == analysis_type \o "_pivot_tables.xlsx"

\* The files the create_*_pivot_tables calls have written to the analysis
\* directory: one workbook per table, named after it.
AnalysisDirectory == {f \o ".xlsx" : f \in {t \in TableFiles : aggTables[t].written}}

\* lines 26-61: the analysis types whose workbook exists in the directory are
\* the keys of the returned dictionary.
load_pivot_tables(directory) ==
    {analysis_types[i] : i \in {k \in 1..Len(analysis_types) :
                                  PivotTablesFile(analysis_types[k]) \in directory}}

(***************************************************************************)
(* main of generate_pivot_tables.py on the sample tables                   *)
(***************************************************************************)
\* The sessions of generate_sample_data (lines 103-114): a known creator,
\* revenue and duration above zero.
SampleSessionRows ==
    {r \in SessionRows(SampleSessionCols) :
        r.creator_id \in KnownCreatorIds /\ r.revenue > 0 /\ r.duration_minutes > 0}

InitPivotSampleVars ==
    /\ \E n \in 0..MaxSessions : \E rows \in [1..n -> SampleSessionRows] :
          sessions = [cols |-> SampleSessionCols, rows |-> rows]
    /\ aggPc = "creator"
    /\ aggTables = [f \in TableFiles |-> NotWritten]
    /\ \E n \in 0..MaxEngagement : \E rows \in [1..n -> EngagementRows(SampleEngagementCols)] :
          engagement_data = [cols |-> SampleEngagementCols, rows |-> rows]
    /\ engagementSessionCols = SampleSessionCols
    /\ engPc = "start"
    /\ merged_data = << >>
    /\ engWritten = {}

\* line 1114: the fourth call of main
CallViewerEngagement ==
    /\ aggPc = "done"
    /\ create_viewer_engagement_pivot_tables

(***************************************************************************)
(* Specifications                                                          *)
(***************************************************************************)
vars == <<fileState, xformOk, loadPc, readCount, sampleCalls, loadResult,
          slotPc, order, orderRow, sessions, aggPc, aggTables,
          builder, pivot_tables, rankPc, recs,
          rateFrame, ratePc, rateColumn,
          source, buildPc, tables,
          runInput, mainPc, recommendations, markdown, attempted,
          engagement_data, engagementSessionCols, engPc, merged_data, engWritten>>

InitLoader == InitLoaderVars /\ IdleSlotVars /\ IdleAggVars /\ IdleRankVars /\ IdleRateVars /\ IdleBuildVars /\ IdleMainVars /\ IdleEngagementVars

NextLoader ==
    \/ (LoadOlist /\ UNCHANGED <<slotVars, aggVars, rankVars, rateVars, buildVars, mainVars, engagementVars>>)
    \/ (LoadSummer /\ UNCHANGED <<slotVars, aggVars, rankVars, rateVars, buildVars, mainVars, engagementVars>>)
    \/ (LoadYouTube /\ UNCHANGED <<slotVars, aggVars, rankVars, rateVars, buildVars, mainVars, engagementVars>>)
    \/ (Transform /\ UNCHANGED <<slotVars, aggVars, rankVars, rateVars, buildVars, mainVars, engagementVars>>)
    \/ (SampleInHandler /\ UNCHANGED <<slotVars, aggVars, rankVars, rateVars, buildVars, mainVars, engagementVars>>)
    \/ (SampleOuter /\ UNCHANGED <<slotVars, aggVars, rankVars, rateVars, buildVars, mainVars, engagementVars>>)

SpecLoader == InitLoader /\ [][NextLoader]_vars

InitSlots == InitSlotVars /\ IdleLoaderVars /\ IdleAggVars /\ IdleRankVars /\ IdleRateVars /\ IdleBuildVars /\ IdleMainVars /\ IdleEngagementVars

NextSlots == DeriveOrderColumns /\ UNCHANGED <<loaderVars, aggVars, rankVars, rateVars, buildVars, mainVars, engagementVars>>

SpecSlots == InitSlots /\ [][NextSlots]_vars

\* main (lines 1104-1111) calls the three functions in this order.
InitAgg == InitAggVars /\ IdleLoaderVars /\ IdleSlotVars /\ IdleRankVars /\ IdleRateVars /\ IdleBuildVars /\ IdleMainVars /\ IdleEngagementVars

NextAgg ==
    \/ (CreateCreatorTables /\ UNCHANGED <<loaderVars, slotVars, rankVars, rateVars, buildVars, mainVars, engagementVars>>)
    \/ (CreateCategoryTables /\ UNCHANGED <<loaderVars, slotVars, rankVars, rateVars, buildVars, mainVars, engagementVars>>)
    \/ (CreateTimeSlotTables /\ UNCHANGED <<loaderVars, slotVars, rankVars, rateVars, buildVars, mainVars, engagementVars>>)

SpecAgg == InitAgg /\ [][NextAgg]_vars

\* main (lines 2012-2022) calls each builder on the loaded pivot_tables.
InitRank == InitRankVars /\ IdleLoaderVars /\ IdleSlotVars /\ IdleAggVars /\ IdleRateVars /\ IdleBuildVars /\ IdleMainVars /\ IdleEngagementVars

NextRank ==
    \/ (RunCreatorBuilder /\ UNCHANGED <<loaderVars, slotVars, aggVars, rateVars, buildVars, mainVars, engagementVars>>)
    \/ (RunCategoryBuilder /\ UNCHANGED <<loaderVars, slotVars, aggVars, rateVars, buildVars, mainVars, engagementVars>>)
    \/ (RunTimeSlotBuilder /\ UNCHANGED <<loaderVars, slotVars, aggVars, rateVars, buildVars, mainVars, engagementVars>>)
    \/ (RunEngagementBuilder /\ UNCHANGED <<loaderVars, slotVars, aggVars, rateVars, buildVars, mainVars, engagementVars>>)

SpecRank == InitRank /\ [][NextRank]_vars

InitRate == InitRateVars /\ IdleLoaderVars /\ IdleSlotVars /\ IdleAggVars /\ IdleRankVars /\ IdleBuildVars /\ IdleMainVars /\ IdleEngagementVars

NextRate == AddEngagementRate /\ UNCHANGED <<loaderVars, slotVars, aggVars, rankVars, buildVars, mainVars, engagementVars>>

SpecRate == InitRate /\ [][NextRate]_vars

\* load_real_data returns either the transformed tables or the sample tables.
InitBuild == InitBuildVars /\ IdleLoaderVars /\ IdleSlotVars /\ IdleAggVars /\ IdleRankVars /\ IdleRateVars /\ IdleMainVars /\ IdleEngagementVars

NextBuild ==
    \/ (BuildRealTables /\ UNCHANGED <<loaderVars, slotVars, aggVars, rankVars, rateVars, mainVars, engagementVars>>)
    \/ (BuildSampleTables /\ UNCHANGED <<loaderVars, slotVars, aggVars, rankVars, rateVars, mainVars, engagementVars>>)

SpecBuild == InitBuild /\ [][NextBuild]_vars

\* main of generate_programming_strategy.py (lines 2005-2063)
InitMain == InitMainVars /\ IdleLoaderVars /\ IdleSlotVars /\ IdleAggVars /\ IdleRankVars /\ IdleRateVars /\ IdleBuildVars /\ IdleEngagementVars

NextMain ==
    \/ (CallCreatorBuilder /\ UNCHANGED <<loaderVars, slotVars, aggVars, rankVars, rateVars, buildVars, engagementVars>>)
    \/ (CallCategoryBuilder /\ UNCHANGED <<loaderVars, slotVars, aggVars, rankVars, rateVars, buildVars, engagementVars>>)
    \/ (CallTimeSlotBuilder /\ UNCHANGED <<loaderVars, slotVars, aggVars, rankVars, rateVars, buildVars, engagementVars>>)
    \/ (CallEngagementBuilder /\ UNCHANGED <<loaderVars, slotVars, aggVars, rankVars, rateVars, buildVars, engagementVars>>)
    \/ (GenerateDocument /\ UNCHANGED <<loaderVars, slotVars, aggVars, rankVars, rateVars, buildVars, engagementVars>>)
    \/ (save_strategy_document /\ UNCHANGED <<loaderVars, slotVars, aggVars, rankVars, rateVars, buildVars, engagementVars>>)
    \/ (create_strategy_visualizations /\ UNCHANGED <<loaderVars, slotVars, aggVars, rankVars, rateVars, buildVars, engagementVars>>)
    \/ (CreatePdf /\ UNCHANGED <<loaderVars, slotVars, aggVars, rankVars, rateVars, buildVars, engagementVars>>)

SpecMain == InitMain /\ [][NextMain]_vars

\* generate_strategy_document called with any recommendations (lines 1055-1378)
InitRender == InitRenderVars /\ IdleLoaderVars /\ IdleSlotVars /\ IdleAggVars /\ IdleRankVars /\ IdleRateVars /\ IdleBuildVars /\ IdleEngagementVars

NextRender ==
    GenerateDocument /\ UNCHANGED <<loaderVars, slotVars, aggVars, rankVars, rateVars, buildVars, engagementVars>>

SpecRender == InitRender /\ [][NextRender]_vars

\* create_viewer_engagement_pivot_tables (lines 734-839)
InitEngagement == InitEngagementVars /\ IdleLoaderVars /\ IdleSlotVars /\ IdleAggVars /\ IdleRankVars /\ IdleRateVars /\ IdleBuildVars /\ IdleMainVars

NextEngagement ==
    create_viewer_engagement_pivot_tables /\ UNCHANGED <<loaderVars, slotVars, aggVars, rankVars, rateVars, buildVars, mainVars>>

SpecEngagement == InitEngagement /\ [][NextEngagement]_vars

\* generate_creator_recommendations and generate_category_recommendations on
\* sheets longer than their top-N cuts
InitTopN == InitTopNVars /\ IdleLoaderVars /\ IdleSlotVars /\ IdleAggVars /\ IdleRateVars /\ IdleBuildVars /\ IdleMainVars /\ IdleEngagementVars

NextTopN ==
    \/ (RunCreatorBuilder /\ UNCHANGED <<loaderVars, slotVars, aggVars, rateVars, buildVars, mainVars, engagementVars>>)
    \/ (RunCategoryBuilder /\ UNCHANGED <<loaderVars, slotVars, aggVars, rateVars, buildVars, mainVars, engagementVars>>)

SpecTopN == InitTopN /\ [][NextTopN]_vars

\* main of generate_pivot_tables.py (lines 1094-1121) after the loader has
\* returned the sample tables
InitPivotSample == InitPivotSampleVars /\ IdleLoaderVars /\ IdleSlotVars /\ IdleRankVars /\ IdleRateVars /\ IdleBuildVars /\ IdleMainVars

NextPivotSample ==
    \/ (CreateCreatorTables /\ UNCHANGED <<loaderVars, slotVars, rankVars, rateVars, buildVars, mainVars, engagementVars>>)
    \/ (CreateCategoryTables /\ UNCHANGED <<loaderVars, slotVars, rankVars, rateVars, buildVars, mainVars, engagementVars>>)
    \/ (CreateTimeSlotTables /\ UNCHANGED <<loaderVars, slotVars, rankVars, rateVars, buildVars, mainVars, engagementVars>>)
    \/ (CallViewerEngagement /\ UNCHANGED <<loaderVars, slotVars, rankVars, rateVars, buildVars, mainVars, aggVars>>)

SpecPivotSample == InitPivotSample /\ [][NextPivotSample]_vars

(***************************************************************************)
(* Claims                                                                  *)
(***************************************************************************)

\* C1: loading never fails fatally: whatever files are present, missing or
\* unreadable, load_real_data returns a 6-tuple of tables and no exception
\* escapes to its caller.
C1_LoadNeverFatal ==
    /\ loadPc # "raised"
    /\ loadPc = "returned" => Len(loadResult) = 6

\* The table of hour -> time slot that section 4.2 of the specification
\* documents: [0,5) Night, [5,12) Morning, [12,17) Afternoon, [17,20) Evening,
\* [20,24) Night.
DocumentedSlot(hour) ==
    IF hour < 5 THEN "Night"
    ELSE IF hour < 12 THEN "Morning"
    ELSE IF hour < 17 THEN "Afternoon"
    ELSE IF hour < 20 THEN "Evening"
    ELSE "Night"

\* C3: for every hour 0..23 the time slot derived for an order is the one of
\* the documented table (13 -> Afternoon, 4 -> Night, 20 -> Night).
C3_SlotMatchesDocumentedTable ==
    slotPc = "mapped" => orderRow.time_slot = DocumentedSlot(orderRow.hour_of_day)

\* C4: the mapping is total and single-valued over the day: every order gets
\* exactly one of the four slot names, and the four buckets together cover
\* 0..23 with no hour in two buckets.
Bucket(slot) == {h \in HoursOfDay : map_to_time_slot(h) = slot}

C4_SlotsPartitionDay ==
    /\ slotPc = "mapped" => /\ orderRow.time_slot \in TimeSlots
                            /\ orderRow.hour_of_day \in Bucket(orderRow.time_slot)
    /\ UNION {Bucket(s) : s \in TimeSlots} = HoursOfDay
    /\ \A s, t \in TimeSlots : s # t => Bucket(s) \cap Bucket(t) = {}

C4_Witness ==
    /\ slotPc = "mapped"
    /\ orderRow.hour_of_day = 23
    /\ orderRow.time_slot = "Night"

Finite(v) == v[2] > 0

InFallbackRange(v) == v[2] = 1 /\ RpmFallbackLow <= v[1] /\ v[1] < RpmFallbackHigh

WrittenTables == {f \in TableFiles : aggTables[f].written}

RpmTables == {"creator_category_performance", "creator_time_slot_performance",
              "top_creators", "category_time_slot_performance",
              "category_day_performance", "top_categories",
              "time_slot_performance", "day_time_slot_performance"}

\* C5: in every aggregate row of every output table, rpm is never NaN or
\* infinite: it is revenue / duration_minutes exactly when both columns are
\* present and the row's duration is positive, and otherwise the column is
\* absent or holds a placeholder from the fallback range.
C5_RpmNeverNaNOrInf ==
    \A f \in WrittenTables \cap RpmTables :
        \A i \in 1..Len(aggTables[f].rows) :
            LET t   == aggTables[f]
                row == t.rows[i]
            IN  /\ "rpm" \in t.cols => Finite(row.rpm)
                /\ IF HasRevenueAndDuration(t.cols) /\ row.duration_minutes > 0
                   THEN "rpm" \in t.cols /\ row.rpm = <<row.revenue, row.duration_minutes>>
                   ELSE "rpm" \notin t.cols \/ InFallbackRange(row.rpm)

NonIncreasingBy(rows, col) ==
    \A i \in 1..(Len(rows) - 1) : ~Less(ValueOf(rows[i], col), ValueOf(rows[i + 1], col))

RankedTables == {"top_creators", "top_categories", "time_slot_performance"}

\* C9: a ranked table is ordered by rpm when rpm can be computed from revenue
\* and duration, and by revenue when rpm cannot be computed but revenue is
\* present.
C9_RankedByRevenueWithoutRpm ==
    \A f \in WrittenTables \cap RankedTables :
        LET t == aggTables[f]
        IN  /\ HasRevenueAndDuration(t.cols) => NonIncreasingBy(t.rows, "rpm")
            /\ ("revenue" \in t.cols /\ "duration_minutes" \notin t.cols)
                  => NonIncreasingBy(t.rows, "revenue")

SessionPairs ==
    {<<creator_tier_of(sessions.rows[i].creator_id),
       creator_name_of(sessions.rows[i].creator_id)>> : i \in 1..Len(sessions.rows)}

\* C10: top_creators has exactly one row per distinct (creator_tier,
\* creator_name) pair of the sessions, at most as many rows as the creators
\* table when every session's creator is known, and no row is followed by a
\* row of larger rpm.
C10_TopCreatorsOneRowPerPair ==
    aggTables["top_creators"].written =>
        LET rows == aggTables["top_creators"].rows
        IN  /\ {rows[i].key : i \in 1..Len(rows)} = SessionPairs
            /\ Len(rows) = Cardinality(SessionPairs)
            /\ (\A i \in 1..Len(sessions.rows) :
                    sessions.rows[i].creator_id \in KnownCreatorIds)
                  => Len(rows) <= Len(Creators)
            /\ NonIncreasingBy(rows, "rpm")

\* Two sessions of two creators, and the sort moved the alphabetically later
\* pair to the top.
C10_Witness ==
    /\ aggTables["top_creators"].written
    /\ HasRevenueAndDuration(sessions.cols)
    /\ Len(sessions.rows) = 2
    /\ Len(aggTables["top_creators"].rows) = 2
    /\ Less(aggTables["top_creators"].rows[2].rpm, aggTables["top_creators"].rows[1].rpm)
    /\ LexLess(aggTables["top_creators"].rows[2].key, aggTables["top_creators"].rows[1].key)

\* The sheet each extraction step reads and the key it stores.
StepSheets ==
    {<<"creator", "creator_performance", "creator_category_performance", "top_performers">>,
     <<"category", "category_performance", "category_time_trend", "top_categories">>,
     <<"category", "category_performance", "category_cross_promotion", "cross_promotion_pairs">>,
     <<"time_slot", "time_slot_performance", "time_slot_heatmap", "best_time_slot">>,
     <<"time_slot", "time_slot_performance", "hour_day_performance", "best_hours_by_day">>,
     <<"engagement", "viewer_engagement", "engagement_conversion_correlation",
       "engagement_driven_categories">>,
     <<"engagement", "viewer_engagement", "engagement_by_tier", "tier_engagement_strategies">>,
     <<"engagement", "viewer_engagement", "engagement_time_trend", "seasonal_engagement">>}

\* C2: for every pivot_tables input, the empty dictionary included, no builder
\* lets an exception reach its caller, and a step whose sheet cannot be read
\* still stores a (fallback) value under its key.
C2_BuildersNeverRaise ==
    \A i \in 1..Len(recs) :
        /\ ~recs[i].raised
        /\ \A st \in StepSheets :
              (/\ builder = st[1]
               /\ HasSheet(pivot_tables, st[2], st[3])
               /\ AttributeRaises(pivot_tables[st[2]][st[3]]))
                  => st[4] \in DOMAIN recs[i].value

\* C6: whatever the input, a returned creator result has a non-empty
\* top_performers creators list and a returned category result has a
\* non-empty top_categories list.
C6_RankingNeverEmpty ==
    \A i \in 1..Len(recs) :
        ~recs[i].raised =>
            /\ builder = "creator" =>
                  /\ "top_performers" \in DOMAIN recs[i].value
                  /\ recs[i].value["top_performers"].creators # << >>
            /\ builder = "category" =>
                  /\ "top_categories" \in DOMAIN recs[i].value
                  /\ recs[i].value["top_categories"] # << >>

SheetLabels(analysis, sheet) ==
    IF HasSheet(pivot_tables, analysis, sheet) /\ ~DataRaises(pivot_tables[analysis][sheet])
    THEN LET f == pivot_tables[analysis][sheet]
         IN  {f.index[i] : i \in 1..Len(f.index)}
    ELSE {}

\* The categories the category builder's input names: the rows of the trend
\* sheet and the rows and columns of the cross-promotion sheet.
InputCategories ==
    SheetLabels("category_performance", "category_time_trend")
        \cup SheetLabels("category_performance", "category_cross_promotion")
        \cup (IF /\ HasSheet(pivot_tables, "category_performance", "category_cross_promotion")
                 /\ SheetLabels("category_performance", "category_cross_promotion") # {}
              THEN LET f == pivot_tables["category_performance"]["category_cross_promotion"]
                   IN  {f.columns[j] : j \in 1..Len(f.columns)}
              ELSE {})

\* C7: when the input names at least two categories the cross-promotion pair
\* list is not empty.
C7_PairsNeverEmpty ==
    \A i \in 1..Len(recs) :
        (builder = "category" /\ ~recs[i].raised /\ Cardinality(InputCategories) >= 2)
            => /\ "cross_promotion_pairs" \in DOMAIN recs[i].value
               /\ recs[i].value["cross_promotion_pairs"] # << >>

RankingOf(value) ==
    [creators |-> IF "top_performers" \in DOMAIN value
                  THEN value["top_performers"].creators ELSE << >>,
     categories |-> Get(value, "top_categories", << >>),
     pairs |-> Get(value, "cross_promotion_pairs", << >>)]

\* C8: two runs of a builder on the same input give the same top-N lists in
\* the same order and the same cross-promotion pair list.
C8_RankingIdempotent ==
    (Len(recs) = 2 /\ builder \in {"creator", "category"})
        => RankingOf(recs[1].value) = RankingOf(recs[2].value)

\* The quotient (likes + comments) / views as a float, 0 when views = 0.
DocumentedRate(row) == IF row.views = 0 THEN <<0, 1>> ELSE <<row.likes + row.comments, row.views>>

SameFloat(a, b) == ~IsNaN(a) /\ ~IsNaN(b) /\ a[1] * b[2] = b[1] * a[2] /\ (a[2] = 0) = (b[2] = 0)

\* C11: when the sessions lack engagement_rate but have likes, comments and
\* views, every session's engagement_rate is (likes + comments) / views, and
\* it is 0 (neither NaN nor infinity) for every session with views = 0.
C11_RateZeroWithoutViews ==
    (/\ ratePc = "filled"
     /\ "engagement_rate" \notin rateFrame.cols
     /\ {"likes", "comments", "views"} \subseteq rateFrame.cols)
        => \A i \in 1..Len(rateFrame.rows) :
               SameFloat(rateColumn[i], DocumentedRate(rateFrame.rows[i]))

\* The canonical categories: the English names of the translation table, the
\* categories of the sample data, and "Other".
CanonicalCategories ==
    {CategoryTranslation[n] : n \in DOMAIN CategoryTranslation}
        \cup {SampleCategoryList[i] : i \in 1..Len(SampleCategoryList)} \cup {"Other"}

AllCanonical(column) == \A i \in 1..Len(column) : column[i] \in CanonicalCategories

\* C12: category mapping is total: whatever the source category values are
\* (missing and unmapped ones included), every product, creator and session
\* record carries a category of the canonical set after loading, never a null.
C12_CategoryMappingTotal ==
    buildPc = "built" =>
        /\ AllCanonical(tables.products)
        /\ AllCanonical(tables.creators)
        /\ AllCanonical(tables.sessions.category)

\* The metrics bundle of a session, each metric with the column names the
\* code uses for it.
MetricsBundle ==
    {{"duration_minutes", "duration"}, {"views"}, {"unique_viewers", "viewer_count"},
     {"likes"}, {"comments"}, {"revenue"}, {"conversion_rate"}, {"engagement_rate"}}

\* C13: the sessions table handed to the aggregation functions, on the
\* real-data path and on the sample-data path, has a column for every metric
\* of the bundle (duration, views, unique viewers, likes, comments, revenue,
\* conversion rate, engagement rate).
C13_SessionsCarryMetricsBundle ==
    buildPc = "built" =>
        \A metric \in MetricsBundle : metric \cap tables.sessions.cols # {}

\* C14: a schema mismatch never raises: for a sessions table that lacks one
\* expected column (a metric such as revenue, or a dimension such as
\* time_slot, day_of_week or creator_id), every create_*_pivot_tables
\* function skips what depends on it and returns normally, so that no
\* exception reaches main.
C14_SchemaMismatchNeverRaises == aggPc # "raised"

\* C17: the tier strategy templates are always present and do not depend on
\* the data: every result of generate_creator_recommendations has
\* tier_strategies with exactly the keys Top, Mid, Emerging, each holding the
\* same focus / frequency / cross_promotion text on every branch (real data,
\* partial data, exception fallback, no data).
C17_TierStrategiesFixed ==
    builder = "creator" =>
        \A i \in 1..Len(recs) :
            /\ ~recs[i].raised
            /\ "tier_strategies" \in DOMAIN recs[i].value
            /\ DOMAIN recs[i].value["tier_strategies"] = {"Top", "Mid", "Emerging"}
            /\ recs[i].value["tier_strategies"] = TierStrategies

\* Both runs went through the exception branch: the creator sheet is no
\* frame, so the tier step ended in its handler.
C17_Witness ==
    /\ builder = "creator"
    /\ Len(recs) = 2
    /\ HasSheet(pivot_tables, "creator_performance", "creator_category_performance")
    /\ AttributeRaises(pivot_tables["creator_performance"]["creator_category_performance"])

\* A label that is not missing and is longer than one character; the
\* defaults "Various" and "Flexible" are such labels.
IsUsableLabel(label) == label # MissingLabel /\ Len(label) > 1

AllUsable(entries) == \A k \in 1..Len(entries) : IsUsableLabel(entries[k][2])

\* C18: per-entity enrichment never emits a degenerate label: every value
\* stored in optimal_categories, creator_time_slots and category_time_slots
\* is a label longer than one character that is not missing, or the default
\* ("Various", "Flexible"); a single-character or missing arg-max result is
\* replaced by the default.
C18_NoDegenerateLabel ==
    \A i \in 1..Len(recs) :
        ~recs[i].raised =>
            /\ builder = "creator" =>
                  /\ AllUsable(recs[i].value["top_performers"].optimal_categories)
                  /\ AllUsable(Get(recs[i].value, "creator_time_slots", << >>))
            /\ builder = "category" =>
                  AllUsable(Get(recs[i].value, "category_time_slots", << >>))

\* A calendar with a row for each of Monday..Sunday, a cell for each of
\* Morning, Afternoon, Evening, Night in every row, and at least one category
\* in every cell.
IsFullGrid(calendar) ==
    /\ Len(calendar) = Len(DayNames)
    /\ \A d \in 1..Len(calendar) :
          /\ Len(calendar[d]) = Len(TimeSlotList)
          /\ \A k \in 1..Len(calendar[d]) : Len(calendar[d][k]) >= 1

\* C16: for every pivot_tables input generate_time_slot_recommendations
\* returns a programming_calendar that is a full grid of 7 days by 4 time
\* slots, every one of the 28 cells holding at least one category.
C16_CalendarIsFullGrid ==
    builder = "time_slot" =>
        \A i \in 1..Len(recs) :
            /\ ~recs[i].raised
            /\ "programming_calendar" \in DOMAIN recs[i].value
            /\ IsFullGrid(recs[i].value["programming_calendar"])

\* C20: within one run of the loader every source is attempted at most once:
\* no input file is read a second time and generate_sample_data is invoked
\* at most once, whichever reads fail.
C20_EachSourceAtMostOnce ==
    /\ \A f \in InputFiles : readCount[f] <= 1
    /\ sampleCalls <= 1

\* The lines of the numbered section n of the document: from its heading to
\* the heading of the next part.
SectionHeadings ==
    << "## 1. Creator Programming Recommendations", "## 2. Category Programming Recommendations",
       "## 3. Time Slot Optimization", "## 4. Viewer Engagement Strategies",
       "## Implementation Plan" >>

LineOf(doc, heading) == CHOOSE i \in 1..Len(doc) : doc[i] = heading

SectionLines(doc, n) ==
    SubSeq(doc, LineOf(doc, SectionHeadings[n]) + 1, LineOf(doc, SectionHeadings[n + 1]) - 1)

HasPlaceholder(doc, n) ==
    \E i \in 1..Len(SectionLines(doc, n)) : SectionLines(doc, n)[i] = "No data available"

\* C15: with zero input sessions, and so no aggregate table to load, the run
\* completes without raising and each of the four sections of the report
\* (creator, category, time slot, engagement) shows the "No data available"
\* placeholder.
C15_EmptyRunRendersPlaceholders ==
    runInput.pt = EmptyDict =>
        /\ mainPc # "raised"
        /\ mainPc \in {"save", "visualize", "pdf", "done"} =>
              \A n \in 1..4 : HasPlaceholder(markdown, n)

\* An attempted write has failed.
WriteFailed == \E i \in 1..Len(attempted) : attempted[i] \in runInput.unwritable

\* C19: a failure while writing one output (the markdown document, a chart or
\* the PDF) is logged and only that output is skipped: every output scheduled
\* after it is still attempted and the run reaches its completion message.
C19_WriteFailureSkipsOnlyThatOutput ==
    WriteFailed =>
        /\ mainPc # "raised"
        /\ mainPc = "done" =>
              \A f \in {MarkdownFile, PdfFile}
                        \cup {ScheduledCharts(recommendations)[i] :
                                i \in 1..Len(ScheduledCharts(recommendations))} :
                  \E i \in 1..Len(attempted) : attempted[i] = f

DocumentHeadings == SectionHeadings \o <<"## Measurement Framework">>

Occurrences(doc, heading) == {i \in 1..Len(doc) : doc[i] = heading}

\* C21: for every recommendations dictionary, the empty one included, the
\* document holds the headings of the creator, category, time-slot and
\* engagement sections, then Implementation Plan, then Measurement Framework,
\* in that order and each exactly once.
C21_HeadingsOnceInOrder ==
    mainPc = "save" =>
        /\ \A n \in 1..Len(DocumentHeadings) :
              Cardinality(Occurrences(markdown, DocumentHeadings[n])) = 1
        /\ \A n \in 1..(Len(DocumentHeadings) - 1) :
              LineOf(markdown, DocumentHeadings[n]) < LineOf(markdown, DocumentHeadings[n + 1])
        /\ markdown[Len(markdown)] = "## Measurement Framework"

\* The document of the empty dictionary has been generated.
C21_Witness ==
    mainPc = "save" /\ recommendations = EmptyDict /\ Len(markdown) > 0

TierValues == {"Top", "Mid", "Emerging"}

\* The tables grouped by creator_tier: the tier is the first level of the key.
TierKeyedTables ==
    {"creator_category_performance", "creator_time_slot_performance", "top_creators"}

\* C22: every creator tier in the creators table and in every row of a table
\* grouped by creator_tier is one of Top, Mid, Emerging; no other tier value
\* reaches an output table.
C22_TiersAreTopMidEmerging ==
    /\ \A i \in 1..Len(Creators) : Creators[i].creator_tier \in TierValues
    /\ \A f \in TierKeyedTables :
          aggTables[f].written =>
              \A i \in 1..Len(aggTables[f].rows) : aggTables[f].rows[i].key[1] \in TierValues

EngagementLevels == <<"Low", "Medium", "High">>

DocumentedLevel(type) ==
    CASE type = "View" -> "Low"
      [] type \in {"Like", "Comment"} -> "Medium"
      [] type \in {"Share", "Purchase"} -> "High"
      [] OTHER -> "Low"

LevelRank(level) == CHOOSE k \in 1..Len(EngagementLevels) : EngagementLevels[k] = level

\* C23: every engagement record joined to a session gets a level in Low,
\* Medium, High.  With an engagement_type column the type alone decides it
\* (View -> Low, Like and Comment -> Medium, Share and Purchase -> High, any
\* other type -> Low); without it the level is binned from engagement_value,
\* so a larger value never gets a lower level.
C23_EveryJoinedRecordGetsLevel ==
    engPc \in {"saved", "failed"} =>
        \A i \in 1..Len(merged_data) :
            /\ merged_data[i].engagement_level \in {"Low", "Medium", "High"}
            /\ "engagement_type" \in engagement_data.cols =>
                  merged_data[i].engagement_level = DocumentedLevel(merged_data[i].engagement_type)
            /\ ("engagement_type" \notin engagement_data.cols
                    /\ "engagement_value" \in engagement_data.cols) =>
                  \A j \in 1..Len(merged_data) :
                      Less(merged_data[i].engagement_value, merged_data[j].engagement_value) =>
                          LevelRank(merged_data[i].engagement_level)
                              <= LevelRank(merged_data[j].engagement_level)

\* The aggregate tables with their grouping dimensions.
GroupingDims ==
    ("creator_category_performance" :> <<"creator_tier", "creator_name", "time_slot">>)
    @@ ("creator_time_slot_performance" :>
            <<"creator_tier", "creator_name", "day_of_week", "time_slot">>)
    @@ ("top_creators" :> <<"creator_tier", "creator_name">>)
    @@ ("category_time_slot_performance" :> <<"product_category", "time_slot">>)
    @@ ("category_day_performance" :> <<"product_category", "day_of_week">>)
    @@ ("top_categories" :> <<"product_category">>)
    @@ ("time_slot_performance" :> <<"time_slot">>)
    @@ ("day_time_slot_performance" :> <<"day_of_week", "time_slot">>)

SummedMetrics == {"revenue", "duration_minutes", "views", "unique_viewers", "likes", "comments"}

AveragedMetrics == {"engagement_rate", "conversion_rate"}

GroupMembers(key, dims) == {i \in DOMAIN sessions.rows : KeyOf(sessions.rows[i], dims) = key}

\* C24: each aggregate table has exactly one row per distinct combination of
\* its grouping dimensions found in the sessions, carries every summed metric
\* (revenue, duration, views, unique viewers, likes, comments) and every
\* averaged metric (engagement rate, conversion rate) the sessions have and
\* none they lack, and its revenue and duration are the sums over the group.
C24_OneRowPerGroupWithConfiguredMetrics ==
    \A f \in DOMAIN GroupingDims :
        aggTables[f].written =>
            LET t == aggTables[f]
                dims == GroupingDims[f]
            IN  /\ {t.rows[i].key : i \in DOMAIN t.rows}
                      = {KeyOf(sessions.rows[i], dims) : i \in DOMAIN sessions.rows}
                /\ \A i, j \in DOMAIN t.rows : t.rows[i].key = t.rows[j].key => i = j
                /\ \A m \in SummedMetrics \cup AveragedMetrics :
                      m \in t.cols <=> m \in sessions.cols
                /\ "revenue" \in sessions.cols =>
                      \A i \in DOMAIN t.rows :
                          t.rows[i].revenue
                              = SumOver(sessions.rows, GroupMembers(t.rows[i].key, dims), "revenue")
                /\ "duration_minutes" \in sessions.cols =>
                      \A i \in DOMAIN t.rows :
                          t.rows[i].duration_minutes
                              = SumOver(sessions.rows, GroupMembers(t.rows[i].key, dims),
                                        "duration_minutes")

NoMetricColumns == sessions.cols \cap (SummedMetrics \cup AveragedMetrics) = {}

CreatorTables == {"creator_category_performance", "creator_time_slot_performance", "top_creators"}

\* C25 as stated: when the sessions have none of the configured metric
\* columns, each of the three functions skips its aggregation: no table is
\* written and no exception is raised.
C25_NoMetricsSkipsEveryFunction ==
    NoMetricColumns =>
        /\ aggPc # "raised"
        /\ \A f \in TableFiles : ~aggTables[f].written

\* C25 as amended: when the sessions have none of the configured metric
\* columns, the category and the time-slot function write no table and raise
\* no exception (an exception can only come from the creator function, before
\* its last table); the creator function is not skipped: it adds the
\* engagement_rate column, its dictionary is not empty, and when it returns
\* its three tables are written with the engagement rate.
C25_NoMetricsSkipsCategoryAndTimeSlot ==
    NoMetricColumns =>
        /\ \A f \in TableFiles \ CreatorTables : ~aggTables[f].written
        /\ aggPc = "raised" => ~aggTables["top_creators"].written
        /\ aggPc \in {"category", "time_slot", "done"} =>
              \A f \in CreatorTables :
                  aggTables[f].written /\ "engagement_rate" \in aggTables[f].cols

\* Main has called the three functions on sessions without metric columns.
C25_Witness ==
    NoMetricColumns /\ aggPc = "done" /\ Len(sessions.rows) > 0

\* The ranking metric of the candidates of a sheet: label -> value, for the
\* one-column sheets (the row's cell, 0 when it is NaN) and for the
\* co-occurrence sheets (the positive cells, keyed by row and column label).
RowCandidates(f) ==
    {<<f.index[i], IF IsNaN(f.cells[i][1]) THEN 0 ELSE f.cells[i][1][1]>> : i \in 1..Len(f.index)}

CellCandidates(f) ==
    {<<<<f.index[i], f.columns[j]>>, f.cells[i][j][1]>> :
        <<i, j>> \in {x \in (1..Len(f.index)) \X (1..Len(f.columns)) :
                        ~IsNaN(f.cells[x[1]][x[2]]) /\ f.cells[x[1]][x[2]][1] > 0}}

MetricIn(candidates, label) == (CHOOSE c \in candidates : c[1] = label)[2]

Smaller(a, b) == IF a < b THEN a ELSE b

\* list is the first n of the candidates in non-increasing order of metric.
IsTopN(list, candidates, n) ==
    /\ Len(list) = Smaller(n, Cardinality(candidates))
    /\ \A i \in 1..Len(list) : \E c \in candidates : c[1] = list[i]
    /\ \A i, j \in 1..Len(list) : i # j => list[i] # list[j]
    /\ \A i \in 1..(Len(list) - 1) :
          MetricIn(candidates, list[i]) >= MetricIn(candidates, list[i + 1])
    /\ \A c \in candidates :
          (\A i \in 1..Len(list) : list[i] # c[1]) =>
              \A i \in 1..Len(list) : MetricIn(candidates, list[i]) >= c[2]

CountLines(doc, line) == Cardinality({i \in 1..Len(doc) : doc[i] = line})

\* C26: top_performers holds at most 10 creators, top_categories at most 5
\* categories and cross_promotion_pairs at most 10 pairs; when they come from
\* a sheet they are its first N candidates by the ranking metric in
\* non-increasing order; the document lists at most 5 entries of each.
C26_TopNIsBoundedPrefix ==
    \A k \in 1..Len(recs) :
        ~recs[k].raised =>
            LET r == recs[k].value
                sheets == pivot_tables[CHOOSE a \in DOMAIN pivot_tables : TRUE]
            IN  /\ "top_performers" \in DOMAIN r =>
                      /\ Len(r["top_performers"].creators) <= 10
                      /\ "creator_category_performance" \in DOMAIN sheets =>
                            IsTopN(r["top_performers"].creators,
                                   RowCandidates(sheets["creator_category_performance"]), 10)
                      /\ CountLines(CreatorSection(r), "1. **creator** - Best in: category") <= 5
                /\ "top_categories" \in DOMAIN r =>
                      /\ Len(r["top_categories"]) <= 5
                      /\ "category_time_trend" \in DOMAIN sheets =>
                            IsTopN(r["top_categories"],
                                   RowCandidates(sheets["category_time_trend"]), 5)
                      /\ CountLines(CategorySection(r), "1. **category** - Trend: trend") <= 5
                /\ "cross_promotion_pairs" \in DOMAIN r =>
                      /\ Len(r["cross_promotion_pairs"]) <= 10
                      /\ ("category_cross_promotion" \in DOMAIN sheets
                            /\ CellCandidates(sheets["category_cross_promotion"]) # {}) =>
                            IsTopN(r["cross_promotion_pairs"],
                                   CellCandidates(sheets["category_cross_promotion"]), 10)
                      /\ CountLines(CategorySection(r), "* **category** + **category**") <= 5

\* A builder has cut a sheet with more candidates than its N.
C26_Witness ==
    /\ Len(recs) > 0
    /\ \/ /\ builder = "creator"
          /\ Len(pivot_tables["creator_performance"]["creator_category_performance"].index) > 10
          /\ Len(recs[1].value["top_performers"].creators) = 10
       \/ /\ builder = "category"
          /\ "category_cross_promotion" \in DOMAIN pivot_tables["category_performance"]
          /\ Cardinality(CellCandidates(pivot_tables["category_performance"]["category_cross_promotion"])) > 10
          /\ Len(recs[1].value["cross_promotion_pairs"]) = 10

\* C27: every workbook load_pivot_tables looks for in the analysis directory
\* is one the aggregation stage writes, so after a complete run of the
\* pivot-table generator the loaded dictionary is not empty.
C27_HandOffAgrees ==
    aggPc = "done" =>
        /\ \A i \in 1..Len(analysis_types) :
              PivotTablesFile(analysis_types[i]) \in AnalysisDirectory
        /\ load_pivot_tables(AnalysisDirectory) # {}

CategoryTables ==
    {"category_time_slot_performance", "category_day_performance", "top_categories",
     "category_cross_promotion"}

\* C28: on the sample tables create_category_performance_pivot_tables and
\* create_viewer_engagement_pivot_tables return early: they raise nothing and
\* write no table; the tables produced are those of the creator and the
\* time-slot function.
C28_SamplePathSkipsCategoryAndEngagement ==
    /\ aggPc # "raised"
    /\ engPc \in {"start", "skipped"}
    /\ engWritten = {}
    /\ \A f \in CategoryTables : ~aggTables[f].written
    /\ engPc = "skipped" =>
          {f \in TableFiles : aggTables[f].written}
              = CreatorTables \cup {"time_slot_performance", "day_time_slot_performance"}

\* main has made its four calls on sample tables that hold rows.
C28_Witness ==
    /\ engPc = "skipped"
    /\ aggPc = "done"
    /\ Len(sessions.rows) > 0
    /\ Len(engagement_data.rows) > 0
    /\ sessions.cols = SampleSessionCols

\* The real-data sessions frame of load_real_data (lines 346-364).
RealDataPath == sessions.cols = BaseCols

\* The tables the category and the time-slot function aggregate with their
\* dictionary (groupby(...).agg(agg_dict)).
CategoryAndTimeSlotAggregates ==
    {"category_time_slot_performance", "category_day_performance", "top_categories",
     "time_slot_performance", "day_time_slot_performance"}

IsPlaceholder(v) == v[2] = 1 /\ v[1] >= RpmFallbackLow /\ v[1] < RpmFallbackHigh

InGroupOrder(rows) ==
    \A i, j \in DOMAIN rows : i < j => LexLess(rows[i].key, rows[j].key)

C30_PairsAreDistinctCategories ==
    LET pairs == aggTables["category_cross_promotion"].rows
    IN  /\ \A i \in DOMAIN pairs : pairs[i].key[1] # pairs[i].key[2]
        /\ \A i, j \in DOMAIN pairs :
              i # j => pairs[i].key # <<pairs[j].key[2], pairs[j].key[1]>>

====
